---------------------------- MODULE Spec2Model ----------------------------
(***************************************************************************)
(* Kherimoya server registry (core/servers.py): KherimoyaServer entities,  *)
(* ServerManager enumeration, identifier allocation, conflict resolution,  *)
(* and the create / rename / delete operations over the servers/ folder    *)
(* and the tmux sessions.                                                  *)
(*                                                                         *)
(* Strings are sequences of one-character tokens.  A few tokens stand for  *)
(* a whole fixed word ("servers", "config", "None", "u1", ...).            *)
(* Optional values are sequences of length 0 (None) or 1.                  *)
(***************************************************************************)
EXTENDS Naturals, Sequences, FiniteSets, TLC

\* ------------------------------------------------------------------ bounds

\* Most entries (folders) under servers/ at any time.
MaxDirs == 3

\* KherimoyaServer objects the caller holds references to.
MaxEntities == 1

\* Group counts _generate_unique_id tries: range(1, 10) in the source, scaled.
MaxGroups == 2

\* Characters per identifier group (4 in the source, scaled).
GROUP_SIZE == 1

\* max_random_tries argument of _generate_unique_id (default 1000, scaled).
MAX_RANDOM_TRIES == 1

\* ServerManager calls made in one run.
MaxCalls == 2

\* Clock ticks (one per sleep of a polling loop) the model counts up to.
MaxTicks == 1

\* The 60 s the graceful-shutdown wait lasts, in ticks.
ShutdownTicks == 1

\* ------------------------------------------------------------- vocabulary

DELIMITER == "@"

\* ALPHABET of _generate_unique_id ("0123456789abcdefghijklmnopqrstuvwxyz"),
\* scaled to two characters.
ALPHABET == {"x", "y"}

\* Values uuid.uuid4() can return, as text.
UUIDS == {<<"u1">>, <<"u2">>}

None == <<>>
Some(v) == <<v>>
Val(o) == o[1]

\* The word the launched command echoes when endstone has ended, and the
\* word the installation wait looks for in the pane.
COMMAND_MARKER == "__FINISHED__"
EXIT_MARKER == "__ENDSTONE_DONE__"

SERVERS == <<"servers">>
SUBDIRS == {<<"config">>, <<"extra">>, <<"server">>, <<"state">>}
WORLDS == <<"worlds">>

\* str.lower(): per character.
LowerTok(t) ==
  CASE t = "X" -> "x"
    [] t = "Y" -> "y"
    [] t = "A" -> "a"
    [] t = "None" -> "none"
    [] OTHER -> t

Lower(s) == IF s = <<>> THEN <<>> ELSE [i \in 1..Len(s) |-> LowerTok(s[i])]

\* `c in s`
Contains(s, c) == \E i \in 1..Len(s) : s[i] = c

\* s.strip() == ""
IsBlank(s) == \A i \in 1..Len(s) : s[i] = " "

\* Index of the first occurrence of c in s (s contains c).
FirstIndex(s, c) == CHOOSE i \in 1..Len(s) : s[i] = c /\ \A j \in 1..(i-1) : s[j] # c

\* s.split(DELIMITER, 1) for an s that contains the delimiter: (name, id).
SplitFirst(s) ==
  LET i == FirstIndex(s, DELIMITER)
  IN  <<SubSeq(s, 1, i - 1), SubSeq(s, i + 1, Len(s))>>

\* str(x) for an optional string inside an f-string: None prints as "None".
Fmt(o) == IF o = None THEN <<"None">> ELSE Val(o)

\* f"{name}{DELIMITER}{server_id}"
FolderName(name, optId) == name \o <<DELIMITER>> \o Fmt(optId)

\* ------------------------------------------------------------------ paths

\* The segments of a relative path text, split at "/" (empty segments drop).
RECURSIVE Segments(_)
Segments(s) ==
  IF s = <<>> THEN <<>>
  ELSE IF ~Contains(s, "/") THEN <<s>>
  ELSE LET i == FirstIndex(s, "/")
           head == SubSeq(s, 1, i - 1)
           rest == Segments(SubSeq(s, i + 1, Len(s)))
       IN  IF head = <<>> THEN rest ELSE <<head>> \o rest

\* Path(project_path / "servers" / text): a path is the sequence of its
\* segments below the project root.
ServersPath(text) == <<SERVERS>> \o Segments(text)

\* Path.name
PathName(p) == IF p = <<>> THEN <<>> ELSE p[Len(p)]

\* Path.parent
PathParent(p) == IF p = <<>> THEN <<>> ELSE SubSeq(p, 1, Len(p) - 1)

\* path / segment
PathJoin(p, seg) == p \o <<seg>>


\* ------------------------------------------------------------------ state

VARIABLES
  serversDir,    \* whether <project>/servers is a directory
  fs,            \* the entries of servers/: folder name -> content
  sessions,      \* names of the tmux sessions that exist
  stopped,       \* names of the sessions whose pane received a "stop" line
  echoed,        \* names of the sessions whose pane shows the command's end marker
  strict_names,  \* ServerManager._strict_names
  outside,       \* server.json of the folders outside <project>/servers
  ent,           \* the KherimoyaServer objects the caller holds, per slot
  pc,            \* per caller: where it is inside create_server ("idle": outside)
  loc,           \* per caller: the locals of its running create_server
  last,          \* the last API call that ended, and how
  calls          \* how many ServerManager calls have been made

vars == <<serversDir, fs, sessions, stopped, echoed, strict_names, outside, ent, pc, loc, last, calls>>

Slots == 1..MaxEntities

\* ------------------------------------------------------------- filesystem

\* A folder as mkdir leaves it.
EmptyDir ==
  [kind |-> "dir", sub |-> {}, json |-> None, state |-> None, yaml |-> None,
   worlds |-> FALSE]

\* A regular file.
FileEntry ==
  [kind |-> "file", sub |-> {}, json |-> None, state |-> None, yaml |-> None,
   worlds |-> FALSE]

\* Directories of the project that are not under its servers/: a second
\* root other/ that has a servers/ folder of its own, with one folder in
\* it and one next to it.  Nothing outside servers/ is created or removed.
OTHER_ROOT == <<"other">>
OUTSIDE_FOLDERS ==
  { <<OTHER_ROOT, SERVERS, <<"a", DELIMITER, "z">>>>, <<OTHER_ROOT, <<"a", DELIMITER, "z">>>> }
OUTSIDE_DIRS == OUTSIDE_FOLDERS \cup {<<OTHER_ROOT>>, <<OTHER_ROOT, SERVERS>>}

\* Path.is_dir()
IsDir(f, p) ==
  \/ p \in OUTSIDE_DIRS
  \/ /\ Len(p) >= 1
     /\ p[1] = SERVERS
     /\ serversDir
     /\ Len(p) >= 2 =>
          /\ p[2] \in DOMAIN f
          /\ f[p[2]].kind = "dir"
     /\ Len(p) >= 3 => p[3] \in f[p[2]].sub
     /\ Len(p) >= 4 => (p[3] = <<"server">> /\ p[4] = WORLDS /\ f[p[2]].worlds)
     /\ Len(p) <= 4

\* Path.exists()
PathExists(f, p) ==
  \/ IsDir(f, p)
  \/ Len(p) = 2 /\ p[1] = SERVERS /\ serversDir /\ p[2] \in DOMAIN f

\* The filesystem with entry n removed / added / replaced.
Without(f, n) == [x \in DOMAIN f \ {n} |-> f[x]]
With(f, n, c) == [x \in DOMAIN f \cup {n} |-> IF x = n THEN c ELSE f[x]]

\* ------------------------------------------------------- KherimoyaServer

\* A constructor that never binds to a folder that is there.
NewServerUnbound(f, name, server_id) ==
  LET given == server_id # None /\ Val(server_id) # <<>>
  IN  [name      |-> name,
       server_id |-> IF given THEN server_id ELSE None,
       path      |-> IF given THEN ServersPath(FolderName(name, server_id))
                              ELSE ServersPath(name),
       exists    |-> FALSE,
       running   |-> FALSE]

\* KherimoyaServer.__init__(project_path, name, server_id)
NewServer(f, name, server_id) ==
  LET given  == server_id # None /\ Val(server_id) # <<>>
      path   == IF given THEN ServersPath(FolderName(name, server_id))
                         ELSE ServersPath(name)
      exists == IsDir(f, path)
      leaf   == PathName(path)
      split  == Contains(leaf, DELIMITER)
  IN  [name      |-> IF exists
                       THEN (IF split THEN SplitFirst(leaf)[1] ELSE leaf)
                       ELSE name,
       server_id |-> IF exists
                       THEN (IF split THEN Some(SplitFirst(leaf)[2]) ELSE None)
                       ELSE (IF given THEN server_id ELSE None),
       path      |-> path,
       exists    |-> exists,
       running   |-> FALSE]

\* A refresh that leaves server.json as it was.
SkipServerJson(f, path, name, server_id) == f

\* The write of server.json at the end of refresh.
WriteServerJson(f, path, name, server_id) ==
  IF Len(path) = 2
    THEN [f EXCEPT ![path[2]].json = Some([name |-> name, id |-> server_id])]
    ELSE f

\* A refresh that takes the server for running once its folder is bound.
RefreshMarksRunning(e, f, path) ==
  LET e1 == IF ~e.exists THEN [e EXCEPT !.server_id = None] ELSE e
  IN  IF ~IsDir(f, path)
        THEN IF IsDir(f, e1.path)
               THEN [ent |-> e1, fs |-> f, exc |-> "none", wrote |-> None]
               ELSE [ent |-> [e1 EXCEPT !.server_id = None], fs |-> f,
                     exc |-> "FileNotFoundError", wrote |-> None]
      ELSE IF PathName(PathParent(path)) # SERVERS
        THEN [ent |-> e1, fs |-> f, exc |-> "ServerNotInPathError", wrote |-> None]
      ELSE IF ~Contains(PathName(path), DELIMITER)
        THEN [ent |-> e1, fs |-> f, exc |-> "ImproperServerError", wrote |-> None]
      ELSE LET parts == SplitFirst(PathName(path))
               e2 == [e1 EXCEPT !.path = path, !.name = parts[1],
                                !.server_id = Some(parts[2]),
                                !.exists = TRUE, !.running = TRUE]
           IN  [ent |-> e2,
                fs  |-> WriteServerJson(f, path, e2.name, e2.server_id),
                exc |-> "none", wrote |-> Some(path)]

\* KherimoyaServer.refresh(path): the entity and the filesystem after the
\* call, the exception it raised ("none": it returned) and the folder
\* whose server.json it wrote (None: it wrote none).
Refresh(e, f, path) ==
  LET e1 == IF ~e.exists THEN [e EXCEPT !.server_id = None] ELSE e
  IN  IF ~IsDir(f, path)
        THEN IF IsDir(f, e1.path)
               THEN [ent |-> e1, fs |-> f, exc |-> "none", wrote |-> None]
               ELSE [ent |-> [e1 EXCEPT !.server_id = None], fs |-> f,
                     exc |-> "FileNotFoundError", wrote |-> None]
      ELSE IF PathName(PathParent(path)) # SERVERS
        THEN [ent |-> e1, fs |-> f, exc |-> "ServerNotInPathError", wrote |-> None]
      ELSE IF ~Contains(PathName(path), DELIMITER)
        THEN [ent |-> e1, fs |-> f, exc |-> "ImproperServerError", wrote |-> None]
      ELSE LET parts == SplitFirst(PathName(path))
               e2 == [e1 EXCEPT !.path = path, !.name = parts[1],
                                !.server_id = Some(parts[2]),
                                !.exists = TRUE, !.running = FALSE]
           IN  [ent |-> e2,
                fs  |-> WriteServerJson(f, path, e2.name, e2.server_id),
                exc |-> "none", wrote |-> Some(path)]

\* ------------------------------------------------- ServerManager: listing

\* The folders _list_servers keeps: directories of servers/ with the
\* delimiter in their name.
ServerDirs(f) ==
  IF ~serversDir THEN {}
  ELSE {n \in DOMAIN f : f[n].kind = "dir" /\ Contains(n, DELIMITER)}

\* The orders iterdir() may enumerate a set of folders in.
Orders(S) ==
  {o \in [1..Cardinality(S) -> S] : \A i, j \in DOMAIN o : i # j => o[i] # o[j]}

\* _list_servers() in enumeration order o: the (name, id) pairs.
ListServers(o) == [i \in DOMAIN o |-> SplitFirst(o[i])]

\* list_server_names() / list_server_ids(), as sets.
ListServerNames(f) == {SplitFirst(n)[1] : n \in ServerDirs(f)}
ListServerIds(f) == {SplitFirst(n)[2] : n \in ServerDirs(f)}

\* list_server_objects() over the pairs of o from index i on: the entities
\* it returns and the filesystem it leaves (refresh writes server.json).
RECURSIVE ListObjectsFrom(_, _, _, _)
ListObjectsFrom(o, i, f, acc) ==
  IF i > Len(o) THEN [objs |-> acc, fs |-> f]
  ELSE LET pair == SplitFirst(o[i])
           srv  == NewServer(f, pair[1], None)
           r    == Refresh(srv, f, ServersPath(FolderName(pair[1], Some(pair[2]))))
       IN  IF r.exc = "none"
             THEN ListObjectsFrom(o, i + 1, r.fs, Append(acc, r.ent))
             ELSE ListObjectsFrom(o, i + 1, r.fs, acc)

ListServerObjects(f, o) == ListObjectsFrom(o, 1, f, <<>>)

\* An enumeration that keeps every entry, directory or not.
EntryAnyKind(f, p) == TRUE

\* p.is_dir() of an entry p of servers/
EntryIsDir(f, p) == f[p].kind = "dir"

\* The loop of _list_servers over the entries of servers/ in iterdir()
\* order, from index i on: the list it appends.
RECURSIVE ListServersFrom(_, _, _, _, _)
ListServersFrom(entries, i, f, sole_names, sole_ids) ==
  IF i > Len(entries) THEN <<>>
  ELSE LET p == entries[i]
           rest == ListServersFrom(entries, i + 1, f, sole_names, sole_ids)
       IN  IF ~EntryIsDir(f, p) THEN rest
           ELSE IF Contains(p, DELIMITER)
             THEN LET name == SplitFirst(p)[1]
                      server_id == SplitFirst(p)[2]
                  IN  IF sole_names THEN <<name>> \o rest
                      ELSE IF sole_ids THEN <<server_id>> \o rest
                      ELSE <<(<<name, server_id>>)>> \o rest
           ELSE rest

\* _list_servers(sole_names, sole_ids) with servers/ enumerated as entries.
ListServersOf(f, entries, sole_names, sole_ids) ==
  IF ~serversDir THEN <<>>
  ELSE ListServersFrom(entries, 1, f, sole_names, sole_ids)

\* The filesystem without the entries of `gone`.
WithoutAll(f, gone) == [x \in DOMAIN f \ gone |-> f[x]]

\* list_server_objects() with servers/ enumerated as entries, the folders
\* of `gone` being removed (by another process) after the scan and before
\* the loop that builds and refreshes the entities.
ListServerObjectsOf(f, entries, gone) ==
  LET all_servers == ListServersOf(f, entries, FALSE, FALSE)
      o == [i \in DOMAIN all_servers |->
              FolderName(all_servers[i][1], Some(all_servers[i][2]))]
  IN  ListObjectsFrom(o, 1, WithoutAll(f, gone), <<>>)

\* ------------------------------------------ ServerManager: identifiers

\* The text between "^" and "$" of the pattern of `groups` groups: e is
\* groups of GROUP_SIZE alphabet characters separated by "-".
MatchesBody(e, groups) ==
  /\ Len(e) = groups * GROUP_SIZE + (groups - 1)
  /\ \A i \in 1..Len(e) :
       IF i % (GROUP_SIZE + 1) = 0 THEN e[i] = "-" ELSE e[i] \in ALPHABET

\* pattern.match(e) for the pattern of `groups` groups: "$" matches at the
\* end of e, and also just before a newline that is the last character.
MatchesGroups(e, groups) ==
  \/ MatchesBody(e, groups)
  \/ /\ Len(e) >= 1
     /\ e[Len(e)] = "\n"
     /\ MatchesBody(SubSeq(e, 1, Len(e) - 1), groups)

\* The strings of n characters of ALPHABET.
RECURSIVE Words(_)
Words(n) ==
  IF n = 0 THEN {<<>>}
  ELSE {w \o <<ch>> : w \in Words(n - 1), ch \in ALPHABET}

\* The values _random_id(groups) can return.
RECURSIVE RandomIds(_)
RandomIds(groups) ==
  IF groups = 1 THEN Words(GROUP_SIZE)
  ELSE {a \o <<"-">> \o b : a \in RandomIds(groups - 1), b \in Words(GROUP_SIZE)}

\* A draw that is returned without the membership test.
TryDrawsUnchecked(existing_set, groups, tries) == RandomIds(groups)

\* The values _generate_unique_id can return, from group count `groups` on
\* (GenerateFrom) and with `tries` draws left at that count (TryDraws).
RECURSIVE GenerateFrom(_, _), TryDraws(_, _, _)
GenerateFrom(existing_set, groups) ==
  IF groups > MaxGroups
    THEN {u \in UUIDS : Lower(u) \notin existing_set}
    ELSE LET existing_of_length ==
               Cardinality({e \in existing_set : MatchesGroups(e, groups)})
             space_size == Cardinality(ALPHABET) ^ (GROUP_SIZE * groups)
         IN  IF existing_of_length >= space_size
               THEN GenerateFrom(existing_set, groups + 1)
               ELSE TryDraws(existing_set, groups, MAX_RANDOM_TRIES)

TryDraws(existing_set, groups, tries) ==
  IF tries = 0 THEN GenerateFrom(existing_set, groups + 1)
  ELSE UNION { IF candidate \notin existing_set
                 THEN {candidate}
                 ELSE TryDraws(existing_set, groups, tries - 1)
               : candidate \in RandomIds(groups) }

\* An allocation that returns a one-group draw untested.
DrawUnchecked(f) == RandomIds(1)

\* _generate_unique_id(): every value it can return on filesystem f.
GenerateUniqueId(f) ==
  GenerateFrom({Lower(x) : x \in ListServerIds(f)}, 1)

\* ------------------------------------------------ filesystem operations

\* A rename that leaves the source folder in place next to the target.
RenamePathKeepsSource(f, src, dst) ==
  IF Len(src) # 2 \/ Len(dst) # 2 \/ ~PathExists(f, src)
    THEN [fs |-> f, exc |-> "FileNotFoundError"]
  ELSE IF src = dst THEN [fs |-> f, exc |-> "none"]
  ELSE IF PathExists(f, dst) /\ f[dst[2]] # EmptyDir
    THEN [fs |-> f, exc |-> "OSError"]
  ELSE [fs |-> With(f, dst[2], f[src[2]]), exc |-> "none"]

\* Path.rename(dst) of the folder src (both entries of servers/): os.rename.
\* Renaming onto itself does nothing; an existing empty folder is replaced;
\* any other existing target fails.
RenamePath(f, src, dst) ==
  IF Len(src) # 2 \/ Len(dst) # 2 \/ ~PathExists(f, src)
    THEN [fs |-> f, exc |-> "FileNotFoundError"]
  ELSE IF src = dst THEN [fs |-> f, exc |-> "none"]
  ELSE IF PathExists(f, dst) /\ f[dst[2]] # EmptyDir
    THEN [fs |-> f, exc |-> "OSError"]
  ELSE [fs |-> With(Without(f, src[2]), dst[2], f[src[2]]), exc |-> "none"]

\* The cleanup loop of _create_server_with_python over the subfolders in
\* enumeration order o, from index i on: files inside a subfolder are
\* unlinked and the subfolder removed; unlink of a folder (server/worlds)
\* raises and ends the cleanup; last, base_path.rmdir() fails (silently)
\* when files are left in the folder.
RECURSIVE CleanupFrom(_, _, _, _)
CleanupFrom(o, i, f, base) ==
  IF i > Len(o)
    THEN IF f[base].sub = {} /\ f[base].json = None /\ f[base].yaml = None
           THEN Without(f, base)
           ELSE f
  ELSE IF o[i] = <<"server">> /\ f[base].worlds
    THEN f
  ELSE CleanupFrom(o, i + 1,
         [f EXCEPT ![base].sub = @ \ {o[i]},
                   ![base].state = IF o[i] = <<"state">> THEN None ELSE @],
         base)

\* The filesystems the cleanup of folder `base` can leave.
Cleanup(f, base) ==
  IF ~IsDir(f, <<SERVERS, base>>) THEN {f}
  ELSE {CleanupFrom(o, 1, f, base) : o \in Orders(f[base].sub)}

\* ------------------------------------------------------------- the calls

Callers == {1, 2}

\* The callers of the sequential specification.
SingleCaller == {1}

\* The values of create_server's `method` parameter, as declared
\* (Literal["python", "docker"]).
METHODS == {"python", "docker"}

\* A `method` argument outside the declared values (nothing checks it
\* before the dispatch).
UNDECLARED_METHOD == "other"

\* install_timeout arguments: None, or a number of ticks.
TIMEOUTS == {None, Some(0)}

\* Valid server names the calls are made with.
NAMES == {<<"a">>, <<"b">>}

\* Names that validation refuses.
BAD_NAMES ==
  {<<>>, <<" ">>, <<"a", "-">>, <<"a", ":">>, <<"a", "/", "b">>,
   <<"a", "\\">>, <<"a", DELIMITER, "x">>}

\* The KherimoyaServer argument of a call: the object the caller holds in
\* its slot, or KherimoyaServer(project_path, name, server_id) built for
\* the call (and held from then on).
HELD == [held |-> TRUE, name |-> <<>>, server_id |-> None]
BUILT == {[held |-> FALSE, name |-> n, server_id |-> i] :
            n \in NAMES, i \in {None, Some(<<"x">>)}}
OBJECTS == {HELD} \cup BUILT

HasObject(s, how) == how.held => ent[s] # None

Object(s, how) ==
  IF how.held THEN Val(ent[s]) ELSE NewServer(fs, how.name, how.server_id)

NullServer ==
  [name |-> <<>>, server_id |-> None, path |-> <<>>, exists |-> FALSE,
   running |-> FALSE]

IdleLoc ==
  [srv |-> NullServer, slot |-> 0, byRef |-> FALSE, arg |-> <<>>,
   base |-> <<>>, timeout |-> None, elapsed |-> 0]

\* What `last` records of a call: the operation, its name argument (of a
\* call that got past validation), the exception raised ("none": it
\* returned) and the return value or, of a failure, where it happened;
\* `on` is the entity whose methods were called (start_server,
\* stop_server, refresh), `path` the argument of refresh, `objs` the list
\* an enumeration returned.
NoCall ==
  [op |-> "none", arg |-> <<>>, exc |-> "none", ret |-> "", on |-> None,
   path |-> <<>>, objs |-> <<>>]

Ended(op, arg, exc, ret) ==
  [op |-> op, arg |-> arg, exc |-> exc, ret |-> ret, on |-> None,
   path |-> <<>>, objs |-> <<>>]

\* A call of the entity's own actions, as `last` records it.
EndedOn(server, op, arg, exc, ret) ==
  [Ended(op, arg, exc, ret) EXCEPT !.on = Some(server)]

\* Folders a servers/ directory may hold before the manager is used.
InstalledDir ==
  [kind |-> "dir", sub |-> SUBDIRS, json |-> None, state |-> Some(FALSE),
   yaml |-> Some("python"), worlds |-> TRUE]

INIT_REGISTRIES ==
  { {},
    {<<"a">>, <<"b">>},
    {<<"a", DELIMITER, "x">>},
    {<<"a", DELIMITER, "x">>, <<"b", DELIMITER, "x">>, <<"b", DELIMITER, "X">>} }

InitContent(n) == IF Contains(n, DELIMITER) THEN InstalledDir ELSE EmptyDir

Init ==
  /\ serversDir \in BOOLEAN
  /\ \E S \in INIT_REGISTRIES :
       /\ serversDir = FALSE => S = {}
       /\ fs = [n \in S |-> InitContent(n)]
  /\ sessions = {}
  /\ stopped = {}
  /\ echoed = {}
  /\ strict_names \in BOOLEAN
  /\ outside = [p \in OUTSIDE_FOLDERS |-> None]
  /\ ent = [s \in Slots |-> None]
  /\ pc = [c \in Callers |-> "idle"]
  /\ loc = [c \in Callers |-> IdleLoc]
  /\ last = NoCall
  /\ calls = 0

\* A ServerManager call starts at caller c.
Call(c) ==
  /\ pc[c] = "idle"
  /\ calls < MaxCalls
  /\ calls' = calls + 1

\* ---- get_server_by_id(server_id)

\* The (1-based) index of the entity get_server_by_id returns, 0 for None.
FoundIndex(objs, server_id) ==
  LET hits == {i \in 1..Len(objs) :
                 /\ objs[i].server_id # None
                 /\ Val(objs[i].server_id) # <<>>
                 /\ Lower(Val(objs[i].server_id)) = Lower(server_id)}
  IN  IF hits = {} THEN 0 ELSE CHOOSE i \in hits : \A j \in hits : i <= j

\* ---- create_server(server, install_timeout, method)

\* The character test without its DELIMITER disjunct.
HasForbiddenNoDelimiter(name) ==
  \/ Contains(name, "-")
  \/ Contains(name, ":")
  \/ Contains(name, "/")
  \/ Contains(name, "\\")

\* `"-" in name or ":" in name or "/" in name or "\\" in name or DELIMITER in name`
HasForbidden(name) ==
  \/ Contains(name, "-")
  \/ Contains(name, ":")
  \/ Contains(name, "/")
  \/ Contains(name, "\\")
  \/ Contains(name, DELIMITER)

\* The validation chain of create_server without its strict_names branch.
CreateCheckAnyName(new_server, f) ==
  IF new_server.exists THEN "ServerCreationError"
  ELSE IF IsBlank(new_server.name) THEN "ServerCreationError"
  ELSE IF Contains(new_server.name, "-") \/ Contains(new_server.name, ":")
          \/ Contains(new_server.name, "/") \/ Contains(new_server.name, "\\")
          \/ Contains(new_server.name, DELIMITER)
    THEN "ServerCreationError"
  ELSE "none"

\* A validation that also refuses, under strict_names, a name another
\* caller's running create_server has taken.
CreateCheckLocked(new_server, f) ==
  IF new_server.exists THEN "ServerCreationError"
  ELSE IF /\ strict_names
          /\ \/ new_server.name \in ListServerNames(f)
             \/ \E d \in Callers : pc[d] # "idle" /\ loc[d].arg = new_server.name
    THEN "ServerCreationError"
  ELSE IF IsBlank(new_server.name) THEN "ServerCreationError"
  ELSE IF HasForbidden(new_server.name) THEN "ServerCreationError"
  ELSE "none"

\* The validation chain of create_server on new_server: the exception it
\* raises ("none": it passes).
CreateCheck(new_server, f) ==
  IF new_server.exists THEN "ServerCreationError"
  ELSE IF new_server.name \in ListServerNames(f) /\ strict_names
    THEN "ServerCreationError"
  ELSE IF IsBlank(new_server.name) THEN "ServerCreationError"
  ELSE IF HasForbidden(new_server.name) THEN "ServerCreationError"
  ELSE "none"

\* The call ends at caller c with exception exc (or returns ret).
EndCall(c, op, arg, exc, ret) ==
  /\ pc' = [pc EXCEPT ![c] = "idle"]
  /\ loc' = [loc EXCEPT ![c] = IdleLoc]
  /\ last' = Ended(op, arg, exc, ret)

\* The entity create_server works on: a placeholder built from the name, or
\* the caller's own object (byRef), which every assignment then shows in.
SetServer(c, srv) ==
  IF loc[c].byRef THEN ent' = [ent EXCEPT ![loc[c].slot] = Some(srv)]
  ELSE UNCHANGED ent

\* create_server(name: str): validation fails; last.on is the placeholder
\* entity the call built from the name.
CreateRejected(c, name) ==
  /\ Call(c)
  /\ LET new_server == NewServer(fs, name, None)
     IN  /\ CreateCheck(new_server, fs) # "none"
         /\ pc' = [pc EXCEPT ![c] = "idle"]
         /\ loc' = [loc EXCEPT ![c] = IdleLoc]
         /\ last' = EndedOn(new_server, "create", <<>>, CreateCheck(new_server, fs),
                            "rejected")
  /\ UNCHANGED <<serversDir, fs, sessions, stopped, echoed, strict_names, outside, ent>>

\* create_server(server: KherimoyaServer): the object exists already, or
\* validation fails.
CreateRejectedObject(c, s, how) ==
  /\ Call(c)
  /\ HasObject(s, how)
  /\ LET server == Object(s, how)
         exc == IF server.exists THEN "FileExistsError"
                ELSE CreateCheck(server, fs)
     IN  /\ exc # "none"
         /\ ent' = [ent EXCEPT ![s] = Some(server)]
         /\ EndCall(c, "create", <<>>, exc, "rejected")
  /\ UNCHANGED <<serversDir, fs, sessions, stopped, echoed, strict_names, outside>>

\* create_server(..., method = "docker") after validation.
CreateDocker(c, name) ==
  /\ Call(c)
  /\ "docker" \in METHODS
  /\ CreateCheck(NewServer(fs, name, None), fs) = "none"
  /\ EndCall(c, "create", name, "NotImplementedError", "")
  /\ UNCHANGED <<serversDir, fs, sessions, stopped, echoed, strict_names, outside, ent>>

\* create_server(..., method) after validation with a method that is
\* neither "python" nor "docker": no branch of the dispatch is taken and
\* the call returns None.
CreateUndeclared(c, name) ==
  /\ Call(c)
  /\ UNDECLARED_METHOD \notin METHODS
  /\ CreateCheck(NewServer(fs, name, None), fs) = "none"
  /\ EndCall(c, "create", name, "none", "None")
  /\ UNCHANGED <<serversDir, fs, sessions, stopped, echoed, strict_names, outside, ent>>

\* What CreateBegin leaves: the identifier is drawn (line 545).
Begun(c, s, byRef, new_server, timeout) ==
  /\ CreateCheck(new_server, fs) = "none"
  /\ \E id \in GenerateUniqueId(fs) :
       LET srv == [new_server EXCEPT !.server_id = Some(id)]
       IN  /\ loc' = [loc EXCEPT ![c] =
                        [srv |-> srv, slot |-> s, byRef |-> byRef,
                         arg |-> new_server.name,
                         base |-> FolderName(srv.name, srv.server_id),
                         timeout |-> timeout, elapsed |-> 0]]
           /\ ent' = IF byRef THEN [ent EXCEPT ![s] = Some(srv)] ELSE ent
  /\ pc' = [pc EXCEPT ![c] = "mkdir"]
  /\ UNCHANGED <<serversDir, fs, sessions, stopped, echoed, strict_names, outside, last>>

\* create_server(name: str, install_timeout, "python") passes validation
\* and _create_server_with_python draws the identifier.  s is the slot the
\* caller keeps the returned entity in.
CreateBegin(c, s, name, timeout) ==
  /\ Call(c)
  /\ "python" \in METHODS
  /\ Cardinality(DOMAIN fs) < MaxDirs
  /\ Begun(c, s, FALSE, NewServer(fs, name, None), timeout)

\* create_server(server: KherimoyaServer, install_timeout, "python")
CreateBeginObject(c, s, how, timeout) ==
  /\ Call(c)
  /\ "python" \in METHODS
  /\ Cardinality(DOMAIN fs) < MaxDirs
  /\ HasObject(s, how)
  /\ ~Object(s, how).exists
  /\ Begun(c, s, TRUE, Object(s, how), timeout)

\* create_server(name: str, install_timeout, "python") up to the dispatch:
\* the placeholder is built and validated (lines 694-704) on the folders
\* as they are now; the identifier is drawn by a later step.
CreateValidate(c, s, name, timeout) ==
  /\ Call(c)
  /\ "python" \in METHODS
  /\ Cardinality(DOMAIN fs) < MaxDirs
  /\ CreateCheck(NewServer(fs, name, None), fs) = "none"
  /\ loc' = [loc EXCEPT ![c] =
               [srv |-> NewServer(fs, name, None), slot |-> s, byRef |-> FALSE,
                arg |-> name, base |-> <<>>, timeout |-> timeout, elapsed |-> 0]]
  /\ pc' = [pc EXCEPT ![c] = "draw"]
  /\ UNCHANGED <<serversDir, fs, sessions, stopped, echoed, strict_names, outside, ent, last>>

\* new_server._server_id = str(self._generate_unique_id()) (line 545), on
\* the folders as they are when the allocator lists them.
DrawId(c) ==
  /\ pc[c] = "draw"
  /\ \E id \in GenerateUniqueId(fs) :
       LET srv == [loc[c].srv EXCEPT !.server_id = Some(id)]
       IN  loc' = [loc EXCEPT ![c].srv = srv,
                              ![c].base = FolderName(srv.name, srv.server_id)]
  /\ pc' = [pc EXCEPT ![c] = "mkdir"]
  /\ UNCHANGED <<calls, serversDir, fs, sessions, stopped, echoed, strict_names, outside, ent, last>>

BasePath(c) == <<SERVERS, loc[c].base>>

\* A mkdir that takes an existing folder for its own (exist_ok=True).
MkdirExistOk(c) ==
  /\ pc[c] = "mkdir"
  /\ IF ~serversDir
       THEN /\ EndCall(c, "create", loc[c].arg, "FileNotFoundError", "mkdir")
            /\ UNCHANGED fs
     ELSE /\ fs' = IF loc[c].base \in DOMAIN fs THEN fs
                   ELSE With(fs, loc[c].base, EmptyDir)
          /\ pc' = [pc EXCEPT ![c] = "subdirs"]
          /\ UNCHANGED <<loc, last>>
  /\ UNCHANGED <<calls, serversDir, sessions, stopped, echoed, strict_names, outside, ent>>

\* base_path.mkdir(parents=False, exist_ok=False)
Mkdir(c) ==
  /\ pc[c] = "mkdir"
  /\ IF ~serversDir
       THEN /\ EndCall(c, "create", loc[c].arg, "FileNotFoundError", "mkdir")
            /\ UNCHANGED fs
     ELSE IF loc[c].base \in DOMAIN fs
       THEN /\ EndCall(c, "create", loc[c].arg, "FileExistsError", "mkdir")
            /\ UNCHANGED fs
     ELSE /\ fs' = With(fs, loc[c].base, EmptyDir)
          /\ pc' = [pc EXCEPT ![c] = "subdirs"]
          /\ UNCHANGED <<loc, last>>
  /\ UNCHANGED <<calls, serversDir, sessions, stopped, echoed, strict_names, outside, ent>>

\* the four (base_path / subdir).mkdir()
MkSubdirs(c) ==
  /\ pc[c] = "subdirs"
  /\ IF ~IsDir(fs, BasePath(c))
       THEN /\ EndCall(c, "create", loc[c].arg, "FileNotFoundError", "subdirs")
            /\ UNCHANGED fs
     ELSE /\ fs' = [fs EXCEPT ![loc[c].base].sub = SUBDIRS]
          /\ pc' = [pc EXCEPT ![c] = "refresh"]
          /\ UNCHANGED <<loc, last>>
  /\ UNCHANGED <<calls, serversDir, sessions, stopped, echoed, strict_names, outside, ent>>

\* new_server.refresh(base_path)
RefreshNew(c) ==
  /\ pc[c] = "refresh"
  /\ LET r == Refresh(loc[c].srv, fs, BasePath(c))
     IN  /\ fs' = r.fs
         /\ SetServer(c, r.ent)
         /\ IF r.exc # "none"
              THEN EndCall(c, "create", loc[c].arg, r.exc, "refresh")
              ELSE /\ loc' = [loc EXCEPT ![c].srv = r.ent]
                   /\ pc' = [pc EXCEPT ![c] = "launch"]
                   /\ UNCHANGED last
  /\ UNCHANGED <<calls, serversDir, sessions, stopped, echoed, strict_names, outside>>

\* session_name of _create_server_with_python
SessionName(c) == FolderName(loc[c].srv.name, loc[c].srv.server_id)

\* The try block of lines 566-589 succeeds: a stale session of the name is
\* killed, a new one created and the launch command sent.
Launch(c) ==
  /\ pc[c] = "launch"
  /\ sessions' = sessions \cup {SessionName(c)}
  /\ stopped' = stopped \ {SessionName(c)}
  /\ echoed' = echoed \ {SessionName(c)}
  /\ pc' = [pc EXCEPT ![c] = "poll"]
  /\ UNCHANGED <<calls, serversDir, fs, strict_names, outside, ent, loc, last>>

\* The try block raises at new_session (after a stale session of the name,
\* if any, was killed): cleanup, then ServerCreationError.
LaunchFails(c) ==
  /\ pc[c] = "launch"
  /\ sessions' = sessions \ {SessionName(c)}
  /\ stopped' = stopped \ {SessionName(c)}
  /\ echoed' = echoed \ {SessionName(c)}
  /\ fs' \in Cleanup(fs, loc[c].base)
  /\ EndCall(c, "create", loc[c].arg, "ServerCreationError", "launch")
  /\ UNCHANGED <<calls, serversDir, strict_names, outside, ent>>

\* An installation wait that does not look at server/worlds.
InstalledUnseen(c) == TRUE

\* Path(base_path / "server" / "worlds").is_dir()
Installed(c) == IsDir(fs, <<SERVERS, loc[c].base, <<"server">>, WORLDS>>)

\* A timeout test that never succeeds.
TimedOutNever(c) == FALSE

TimedOut(c) ==
  /\ loc[c].timeout # None
  /\ loc[c].elapsed > Val(loc[c].timeout)

\* The installation wait sees server/worlds: the loop ends.
PollInstalled(c) ==
  /\ pc[c] = "poll"
  /\ Installed(c)
  /\ pc' = [pc EXCEPT ![c] = "stop"]
  /\ UNCHANGED <<calls, serversDir, fs, sessions, stopped, echoed, strict_names, outside, ent, loc, last>>

\* install_timeout has passed: kill the session, cleanup, TimeoutError.
PollTimeout(c) ==
  /\ pc[c] = "poll"
  /\ ~Installed(c)
  /\ TimedOut(c)
  /\ sessions' = sessions \ {SessionName(c)}
  /\ stopped' = stopped \ {SessionName(c)}
  /\ echoed' = echoed \ {SessionName(c)}
  /\ fs' \in Cleanup(fs, loc[c].base)
  /\ EndCall(c, "create", loc[c].arg, "TimeoutError", "poll")
  /\ UNCHANGED <<calls, serversDir, strict_names, outside, ent>>

\* The marker words in pane.capture_pane() of session sn.
PaneOutput(sn) == IF sn \in echoed THEN {COMMAND_MARKER} ELSE {}

\* `"__ENDSTONE_DONE__" in output or session not in tmux_server.sessions`
SeenExit(c) ==
  \/ EXIT_MARKER \in PaneOutput(SessionName(c))
  \/ SessionName(c) \notin sessions

\* The exit check of the installation wait succeeds: ServerCreationError
\* (line 636), with no cleanup.
PollExited(c) ==
  /\ pc[c] = "poll"
  /\ ~Installed(c)
  /\ ~TimedOut(c)
  /\ SeenExit(c)
  /\ EndCall(c, "create", loc[c].arg, "ServerCreationError", "exited")
  /\ UNCHANGED <<calls, serversDir, fs, sessions, stopped, echoed, strict_names, outside, ent>>

\* time.sleep(sleep_interval): the clock advances.
PollSleep(c) ==
  /\ pc[c] = "poll"
  /\ ~Installed(c)
  /\ ~TimedOut(c)
  /\ ~SeenExit(c)
  /\ loc' = [loc EXCEPT ![c].elapsed = IF @ < MaxTicks THEN @ + 1 ELSE @]
  /\ UNCHANGED <<calls, serversDir, fs, sessions, stopped, echoed, strict_names, outside, ent, pc, last>>

\* pane.send_keys("stop"); stop_start = time.monotonic()
SendStop(c) ==
  /\ pc[c] = "stop"
  /\ stopped' = IF SessionName(c) \in sessions
                  THEN stopped \cup {SessionName(c)} ELSE stopped
  /\ loc' = [loc EXCEPT ![c].elapsed = 0]
  /\ pc' = [pc EXCEPT ![c] = "wait"]
  /\ UNCHANGED <<calls, serversDir, fs, sessions, echoed, strict_names, outside, ent, last>>

\* The shutdown wait ends: the session is gone, or 60 s have passed.
WaitEnds(c) ==
  /\ pc[c] = "wait"
  /\ \/ SessionName(c) \notin sessions
     \/ loc[c].elapsed > ShutdownTicks
  /\ pc' = [pc EXCEPT ![c] = "finish"]
  /\ UNCHANGED <<calls, serversDir, fs, sessions, stopped, echoed, strict_names, outside, ent, loc, last>>

\* time.sleep(0.5) of the shutdown wait.
WaitSleep(c) ==
  /\ pc[c] = "wait"
  /\ SessionName(c) \in sessions
  /\ loc[c].elapsed <= ShutdownTicks
  /\ loc' = [loc EXCEPT ![c].elapsed = @ + 1]
  /\ UNCHANGED <<calls, serversDir, fs, sessions, stopped, echoed, strict_names, outside, ent, pc, last>>

\* state/state.json and kherimoya.yaml are written; return new_server.
Finish(c) ==
  /\ pc[c] = "finish"
  /\ IF ~IsDir(fs, <<SERVERS, loc[c].base, <<"state">>>>)
       THEN /\ EndCall(c, "create", loc[c].arg, "FileNotFoundError", "finish")
            /\ UNCHANGED <<fs, ent>>
     ELSE /\ fs' = [fs EXCEPT ![loc[c].base].state = Some(FALSE),
                              ![loc[c].base].yaml = Some("python")]
          /\ ent' = [ent EXCEPT ![loc[c].slot] = Some(loc[c].srv)]
          /\ EndCall(c, "create", loc[c].arg, "none", "entity")
  /\ UNCHANGED <<calls, serversDir, sessions, stopped, echoed, strict_names, outside>>

\* ---- rename_server(server, new_name)

\* The validation chain of rename_server without its strict_names branch.
RenameCheckAnyName(server, new_name, f) ==
  IF ~server.exists \/ ~IsDir(f, server.path) THEN "FileNotFoundError"
  ELSE IF IsBlank(new_name) THEN "ServerRenameError"
  ELSE IF HasForbidden(new_name) THEN "ServerRenameError"
  ELSE "none"

\* The validation chain of rename_server: the exception it raises.
RenameCheck(server, new_name, f) ==
  IF ~server.exists \/ ~IsDir(f, server.path) THEN "FileNotFoundError"
  ELSE IF new_name \in ListServerNames(f) /\ strict_names THEN "ServerRenameError"
  ELSE IF IsBlank(new_name) THEN "ServerRenameError"
  ELSE IF HasForbidden(new_name) THEN "ServerRenameError"
  ELSE "none"

\* new_path of rename_server (line 752)
RenameTarget(server, new_name) ==
  PathJoin(PathParent(server.path), FolderName(new_name, server.server_id))

\* rename_server as a whole: the entity and filesystem it leaves, and the
\* exception it raised.
RenameResult(server, new_name, f) ==
  IF RenameCheck(server, new_name, f) # "none"
    THEN [ent |-> server, fs |-> f, exc |-> RenameCheck(server, new_name, f)]
  ELSE LET new_path == RenameTarget(server, new_name)
           mv == RenamePath(f, server.path, new_path)
       IN  IF mv.exc # "none"
             THEN [ent |-> server, fs |-> mv.fs, exc |-> mv.exc]
             ELSE LET r == Refresh(server, mv.fs, new_path)
                  IN  [ent |-> r.ent, fs |-> r.fs, exc |-> r.exc]

RenameServer(c, s, how, new_name) ==
  /\ Call(c)
  /\ HasObject(s, how)
  /\ LET r == RenameResult(Object(s, how), new_name, fs)
     IN  /\ fs' = r.fs
         /\ ent' = [ent EXCEPT ![s] = Some(r.ent)]
         /\ last' = Ended("rename", IF r.exc = "none" THEN new_name ELSE <<>>,
                          r.exc, "")
  /\ UNCHANGED <<serversDir, sessions, stopped, echoed, strict_names, outside, pc, loc>>

\* ---- delete_server(server)

\* The check of delete_server on the exists flag alone.
DeleteCheckFlagOnly(server, f) ==
  IF ~server.exists THEN "FileNotFoundError" ELSE "none"

DeleteCheck(server, f) ==
  IF ~server.exists \/ ~IsDir(f, server.path) THEN "FileNotFoundError" ELSE "none"

\* An rmtree that removes nothing.
RmTreeKeeps(f, path) == f

\* shutil.rmtree(path) of an entry of servers/
RmTree(f, path) == IF Len(path) = 2 THEN Without(f, path[2]) ELSE f

DeleteServer(c, s, how) ==
  /\ Call(c)
  /\ HasObject(s, how)
  /\ LET server == Object(s, how)
         exc == DeleteCheck(server, fs)
     IN  /\ fs' = IF exc = "none" THEN RmTree(fs, server.path) ELSE fs
         /\ ent' = [ent EXCEPT ![s] = Some(server)]
         /\ last' = Ended("delete", <<>>, exc, "")
  /\ UNCHANGED <<serversDir, sessions, stopped, echoed, strict_names, outside, pc, loc>>

\* ---- resolve_id_conflicts()

\* The key of resolve_id_conflicts without lower().
SeenKeyExact(server) ==
  IF server.server_id = None THEN <<>> ELSE Val(server.server_id)

\* (server.server_id or "").lower()
SeenKey(server) ==
  IF server.server_id = None THEN <<>> ELSE Lower(Val(server.server_id))

\* The loop of resolve_id_conflicts over the entities objs from index i on:
\* every (filesystem, return value, exception) it can end with.
RECURSIVE ResolveFrom(_, _, _, _, _)
ResolveFrom(objs, i, seen_ids, f, conflicts_found) ==
  IF i > Len(objs)
    THEN {[fs |-> f, ret |-> conflicts_found, exc |-> "none"]}
  ELSE LET server == objs[i]
       IN  IF SeenKey(server) \in seen_ids
             THEN UNION {
                    LET s1 == [server EXCEPT !.server_id = Some(id)]
                        new_path == PathJoin(PathParent(s1.path),
                                             FolderName(s1.name, s1.server_id))
                        mv == RenamePath(f, s1.path, new_path)
                        r  == Refresh(s1, mv.fs, new_path)
                    IN  IF mv.exc # "none"
                          THEN {[fs |-> mv.fs, ret |-> conflicts_found, exc |-> mv.exc]}
                        ELSE IF r.exc # "none"
                          THEN {[fs |-> r.fs, ret |-> conflicts_found, exc |-> r.exc]}
                        ELSE ResolveFrom(objs, i + 1, seen_ids, r.fs, TRUE)
                    : id \in GenerateUniqueId(f) }
             ELSE ResolveFrom(objs, i + 1,
                    IF server.server_id # None
                      THEN seen_ids \cup {Lower(Val(server.server_id))}
                      ELSE seen_ids,
                    f, conflicts_found)

\* resolve_id_conflicts() with servers/ enumerated in order o.
ResolveResults(f, o) ==
  LET l == ListServerObjects(f, o)
  IN  ResolveFrom(l.objs, 1, {}, l.fs, FALSE)

ResolveIdConflicts(c) ==
  /\ Call(c)
  /\ \E o \in Orders(ServerDirs(fs)) :
       \E r \in ResolveResults(fs, o) :
         /\ fs' = r.fs
         /\ last' = Ended("resolve", <<>>, r.exc,
                          IF r.exc # "none" THEN ""
                          ELSE IF r.ret THEN "True" ELSE "False")
  /\ UNCHANGED <<serversDir, sessions, stopped, echoed, strict_names, outside, ent, pc, loc>>

\* ---- KherimoyaServer.actions: start_server(method), stop_server(method)

\* The values of the `method` parameter of start_server and stop_server.
ACTION_METHODS == {"tmux", "plugin"}

\* _checkserver without its test of the exists flag.
CheckserverRunningOnly(server, requires_exists, requires_running) ==
  IF requires_running /\ ~server.running THEN "ServerNotRunningError" ELSE "none"

\* _checkserver without its test of the running flag.
CheckserverExistsOnly(server, requires_exists, requires_running) ==
  IF ~server.exists /\ requires_exists THEN "ServerDoesNotExistError" ELSE "none"

\* _checkserver(requires_exists, requires_running): the exception it raises.
Checkserver(server, requires_exists, requires_running) ==
  IF ~server.exists /\ requires_exists THEN "ServerDoesNotExistError"
  ELSE IF requires_running /\ ~server.running THEN "ServerNotRunningError"
  ELSE "none"

\* A _start_through_tmux in which a failed kill of the stale session ends
\* the call.
StartThroughTmuxKillRaises(ss, sn, killed, created, sent) ==
  IF ~killed THEN [sessions |-> ss, exc |-> "ServerStartError", fresh |-> FALSE]
  ELSE IF ~created
    THEN [sessions |-> ss \ {sn}, exc |-> "ServerStartError", fresh |-> FALSE]
  ELSE [sessions |-> ss \cup {sn},
        exc |-> IF sent THEN "none" ELSE "ServerStartError", fresh |-> TRUE]

\* _start_through_tmux on the sessions ss for session name sn: the lookup
\* and kill of a session of that name works (killed) or raises and is
\* passed over; new_session(kill_session=True) replaces a session of that
\* name by a fresh one (created) or raises; send_keys puts the command in
\* the fresh pane (sent) or raises.  The sessions it leaves, the exception
\* that leaves start_server, and whether a fresh session was made.
StartThroughTmux(ss, sn, killed, created, sent) ==
  IF ~created
    THEN [sessions |-> IF killed THEN ss \ {sn} ELSE ss,
          exc |-> "ServerStartError", fresh |-> FALSE]
  ELSE [sessions |-> ss \cup {sn},
        exc |-> IF sent THEN "none" ELSE "ServerStartError", fresh |-> TRUE]

\* start_server(method) on the object: _checkserver, then the dispatch on
\* method.
StartServer(c, s, how, method) ==
  /\ Call(c)
  /\ HasObject(s, how)
  /\ LET server == Object(s, how)
         exc == Checkserver(server, TRUE, FALSE)
         sn  == FolderName(server.name, server.server_id)
     IN  /\ ent' = [ent EXCEPT ![s] = Some(server)]
         /\ IF exc # "none"
              THEN /\ last' = EndedOn(server, "start", <<>>, exc, method)
                   /\ UNCHANGED <<sessions, stopped, echoed>>
            ELSE IF method = "plugin"
              THEN /\ last' = EndedOn(server, "start", <<>>, "NotImplementedError", method)
                   /\ UNCHANGED <<sessions, stopped, echoed>>
            ELSE IF method # "tmux"
              THEN /\ last' = EndedOn(server, "start", <<>>, "ValueError", method)
                   /\ UNCHANGED <<sessions, stopped, echoed>>
            ELSE \E killed, created, sent \in BOOLEAN :
                   LET r == StartThroughTmux(sessions, sn, killed, created, sent)
                   IN  /\ sessions' = r.sessions
                       /\ stopped' = IF r.fresh THEN stopped \ {sn} ELSE stopped \cap r.sessions
                       /\ echoed' = IF r.fresh THEN echoed \ {sn} ELSE echoed \cap r.sessions
                       /\ last' = EndedOn(server, "start", server.name, r.exc, method)
  /\ UNCHANGED <<serversDir, fs, strict_names, outside, pc, loc>>

\* stop_server(method) on the object: _checkserver, then _stop_through_tmux
\* sends "stop" to the session of the name, if there is one.
StopServer(c, s, how, method) ==
  /\ Call(c)
  /\ HasObject(s, how)
  /\ LET server == Object(s, how)
         exc == Checkserver(server, TRUE, TRUE)
         sn  == FolderName(server.name, server.server_id)
     IN  /\ ent' = [ent EXCEPT ![s] = Some(server)]
         /\ IF exc # "none"
              THEN /\ last' = EndedOn(server, "stop", <<>>, exc, method)
                   /\ UNCHANGED stopped
            ELSE IF method = "plugin"
              THEN /\ last' = EndedOn(server, "stop", <<>>, "NotImplementedError", method)
                   /\ UNCHANGED stopped
            ELSE IF method # "tmux"
              THEN /\ last' = EndedOn(server, "stop", <<>>, "ValueError", method)
                   /\ UNCHANGED stopped
            ELSE \E ok \in BOOLEAN :
                   /\ stopped' = IF ok /\ sn \in sessions
                                   THEN stopped \cup {sn} ELSE stopped
                   /\ last' = EndedOn(server, "stop", server.name,
                                      IF ok THEN "none" ELSE "ServerStopError", method)
  /\ UNCHANGED <<serversDir, fs, sessions, echoed, strict_names, outside, pc, loc>>

\* ---- enumeration, lookup and refresh as calls of their own

\* The entries of servers/ (none when it is no directory).
Entries(f) == IF serversDir THEN DOMAIN f ELSE {}

\* The ways _list_servers is called: the plain call and the two wrappers.
LISTINGS ==
  { [op |-> "_list_servers", sole_names |-> FALSE, sole_ids |-> FALSE],
    [op |-> "list_server_names", sole_names |-> TRUE, sole_ids |-> FALSE],
    [op |-> "list_server_ids", sole_names |-> FALSE, sole_ids |-> TRUE] }

\* _list_servers(), list_server_names() or list_server_ids()
ListServersCall(c, listing) ==
  /\ Call(c)
  /\ \E entries \in Orders(Entries(fs)) :
       last' = [Ended(listing.op, <<>>, "none", "") EXCEPT
                  !.objs = ListServersOf(fs, entries, listing.sole_names,
                                         listing.sole_ids)]
  /\ UNCHANGED <<serversDir, fs, sessions, stopped, echoed, strict_names, outside, ent, pc, loc>>

\* list_server_objects(); last.ret tells whether folders vanished during it.
ListServerObjectsCall(c) ==
  /\ Call(c)
  /\ \E entries \in Orders(Entries(fs)), gone \in SUBSET ServerDirs(fs) :
       LET l == ListServerObjectsOf(fs, entries, gone)
       IN  /\ fs' = l.fs
           /\ last' = [Ended("list_server_objects", <<>>, "none",
                             IF gone = {} THEN "" ELSE "vanished")
                         EXCEPT !.objs = l.objs]
  /\ UNCHANGED <<serversDir, sessions, stopped, echoed, strict_names, outside, ent, pc, loc>>

\* The identifiers get_server_by_id is asked for.
IDS_ASKED == {<<>>, <<"x">>, <<"X">>, <<"y">>}

\* get_server_by_id(server_id): the entity found is kept in slot s.
GetServerById(c, s, server_id) ==
  /\ Call(c)
  /\ \E entries \in Orders(Entries(fs)) :
       LET l == ListServerObjectsOf(fs, entries, {})
           i == FoundIndex(l.objs, server_id)
       IN  /\ fs' = l.fs
           /\ ent' = IF i > 0 THEN [ent EXCEPT ![s] = Some(l.objs[i])] ELSE ent
           /\ last' = [Ended("get_server_by_id", server_id, "none",
                             IF i > 0 THEN "entity" ELSE "None")
                         EXCEPT !.objs = IF i > 0 THEN <<l.objs[i]>> ELSE <<>>]
  /\ UNCHANGED <<serversDir, sessions, stopped, echoed, strict_names, outside, pc, loc>>

\* The paths refresh is called with: folders of servers/ (present or not,
\* with and without the delimiter), servers/ itself, a subfolder of a
\* server, and the folders outside the registry.
REFRESH_PATHS ==
  { ServersPath(<<"a", DELIMITER, "x">>), ServersPath(<<"b", DELIMITER, "y">>),
    ServersPath(<<"a", DELIMITER, "q">>), ServersPath(<<"a">>),
    <<SERVERS>>, <<SERVERS, <<"a", DELIMITER, "x">>, <<"config">>>> }
  \cup OUTSIDE_FOLDERS

\* server.json of a folder outside the registry after the refresh r.
WriteOutside(out, r) ==
  IF r.wrote # None /\ Val(r.wrote) \in DOMAIN out
    THEN [out EXCEPT ![Val(r.wrote)] =
            Some([name |-> r.ent.name, id |-> r.ent.server_id])]
    ELSE out

\* KherimoyaServer.refresh(path) on the object.
RefreshServer(c, s, how, path) ==
  /\ Call(c)
  /\ HasObject(s, how)
  /\ LET server == Object(s, how)
         r == Refresh(server, fs, path)
     IN  /\ ent' = [ent EXCEPT ![s] = Some(r.ent)]
         /\ fs' = r.fs
         /\ outside' = WriteOutside(outside, r)
         /\ last' = [EndedOn(server, "refresh", <<>>, r.exc, "") EXCEPT !.path = path]
  /\ UNCHANGED <<serversDir, sessions, stopped, echoed, strict_names, pc, loc>>

\* ---- _generate_unique_id(max_random_tries) as a call of its own

\* _generate_unique_id(): last.arg is the identifier it returned.
GenerateUniqueIdCall(c) ==
  /\ Call(c)
  /\ \E id \in GenerateUniqueId(fs) :
       last' = Ended("_generate_unique_id", id, "none", "str")
  /\ UNCHANGED <<serversDir, fs, sessions, stopped, echoed, strict_names, outside, ent, pc, loc>>

\* ---- the launched process and its session

\* endstone finishes its first-run installation: server/worlds appears.
EndstoneInstalls ==
  \E sn \in sessions \ echoed :
    /\ IsDir(fs, <<SERVERS, sn, <<"server">>>>)
    /\ ~fs[sn].worlds
    /\ fs' = [fs EXCEPT ![sn].worlds = TRUE]
    /\ UNCHANGED <<calls, serversDir, sessions, stopped, echoed, strict_names, outside, ent, pc, loc, last>>

\* endstone ends, its installation undone, in the session an installation
\* wait is polling: the command echoes its marker into the pane (the
\* shell's exit follows).
CommandEnds ==
  \E c \in Callers :
    /\ pc[c] = "poll"
    /\ ~Installed(c)
    /\ SessionName(c) \in sessions \ echoed
    /\ echoed' = echoed \cup {SessionName(c)}
    /\ UNCHANGED <<calls, serversDir, fs, sessions, stopped, strict_names, outside, ent, pc, loc, last>>

\* The shell of a session exits (after its command, or killed out of band).
SessionExits ==
  \E sn \in sessions :
    /\ sessions' = sessions \ {sn}
    /\ stopped' = stopped \ {sn}
    /\ echoed' = echoed \ {sn}
    /\ UNCHANGED <<calls, serversDir, fs, strict_names, outside, ent, pc, loc, last>>

\* ------------------------------------------------------ the specification

CallsOf(c) ==
  \/ \E name \in NAMES \cup BAD_NAMES : CreateRejected(c, name)
  \/ \E s \in Slots, how \in OBJECTS : CreateRejectedObject(c, s, how)
  \/ \E name \in NAMES \cup BAD_NAMES : CreateDocker(c, name)
  \/ \E name \in NAMES \cup BAD_NAMES : CreateUndeclared(c, name)
  \/ \E s \in Slots, name \in NAMES \cup BAD_NAMES, timeout \in TIMEOUTS :
       CreateBegin(c, s, name, timeout)
  \/ \E s \in Slots, how \in OBJECTS, timeout \in TIMEOUTS :
       CreateBeginObject(c, s, how, timeout)
  \/ Mkdir(c)
  \/ MkSubdirs(c)
  \/ RefreshNew(c)
  \/ Launch(c)
  \/ LaunchFails(c)
  \/ PollInstalled(c)
  \/ PollTimeout(c)
  \/ PollExited(c)
  \/ PollSleep(c)
  \/ SendStop(c)
  \/ WaitEnds(c)
  \/ WaitSleep(c)
  \/ Finish(c)
  \/ \E s \in Slots, how \in OBJECTS, new_name \in NAMES \cup BAD_NAMES :
       RenameServer(c, s, how, new_name)
  \/ \E s \in Slots, how \in OBJECTS : DeleteServer(c, s, how)
  \/ ResolveIdConflicts(c)
  \/ \E s \in Slots, how \in OBJECTS, method \in ACTION_METHODS \cup {UNDECLARED_METHOD} :
       StartServer(c, s, how, method)
  \/ \E s \in Slots, how \in OBJECTS, method \in ACTION_METHODS \cup {UNDECLARED_METHOD} :
       StopServer(c, s, how, method)

Next ==
  \/ \E c \in SingleCaller : CallsOf(c)
  \/ EndstoneInstalls
  \/ CommandEnds
  \/ SessionExits

Spec == Init /\ [][Next]_vars

\* Registries the enumeration calls start from: folders with and without
\* the delimiter, regular files, identifiers that differ in case only, and
\* a folder whose identifier is the empty string.
RegistryOf(dirs, files) ==
  [n \in dirs \cup files |-> IF n \in files THEN FileEntry ELSE InitContent(n)]

INIT_LISTINGS ==
  { RegistryOf({}, {}),
    RegistryOf({<<"a", DELIMITER, "x">>, <<"b", DELIMITER, "X">>, <<"a">>},
               {<<"c", DELIMITER, "y">>}),
    RegistryOf({<<"a", DELIMITER, "x">>, <<"b", DELIMITER, "x">>,
                <<"b", DELIMITER, "X">>},
               {<<"b", DELIMITER, "y">>}),
    RegistryOf({<<"a", DELIMITER>>, <<"a", DELIMITER, "x">>}, {}) }

InitRegistry ==
  /\ serversDir \in BOOLEAN
  /\ fs \in INIT_LISTINGS
  /\ serversDir = FALSE => fs = RegistryOf({}, {})
  /\ sessions = {}
  /\ stopped = {}
  /\ echoed = {}
  /\ strict_names \in BOOLEAN
  /\ outside = [p \in OUTSIDE_FOLDERS |-> None]
  /\ ent = [s \in Slots |-> None]
  /\ pc = [c \in Callers |-> "idle"]
  /\ loc = [c \in Callers |-> IdleLoc]
  /\ last = NoCall
  /\ calls = 0

\* The enumeration, lookup, refresh and repair calls, and delete_server on
\* an entity built for the call.
NextRegistry ==
  \E c \in SingleCaller :
    \/ \E listing \in LISTINGS : ListServersCall(c, listing)
    \/ ListServerObjectsCall(c)
    \/ \E s \in Slots, server_id \in IDS_ASKED : GetServerById(c, s, server_id)
    \/ \E s \in Slots, how \in OBJECTS, path \in REFRESH_PATHS :
         RefreshServer(c, s, how, path)
    \/ ResolveIdConflicts(c)
    \/ \E s \in Slots, how \in BUILT : DeleteServer(c, s, how)

SpecRegistry == InitRegistry /\ [][NextRegistry]_vars

\* Identifiers the folders of servers/ carry when the allocator is called:
\* of one and of two groups, in upper case, ending in a newline, and a
\* UUID.
ID_POOL ==
  { <<"x">>, <<"y">>, <<"X">>, <<"x", "\n">>,
    <<"x", "-", "x">>, <<"x", "-", "y">>, <<"y", "-", "x">>, <<"y", "-", "y">>,
    <<"u1">> }

\* servers/ holds one folder a@<identifier> per identifier of a set drawn
\* from the pool.
InitAllocate ==
  /\ serversDir \in BOOLEAN
  /\ \E S \in SUBSET ID_POOL :
       /\ serversDir = FALSE => S = {}
       /\ fs = [n \in {FolderName(<<"a">>, Some(id)) : id \in S} |-> InstalledDir]
  /\ sessions = {}
  /\ stopped = {}
  /\ echoed = {}
  /\ strict_names = FALSE
  /\ outside = [p \in OUTSIDE_FOLDERS |-> None]
  /\ ent = [s \in Slots |-> None]
  /\ pc = [c \in Callers |-> "idle"]
  /\ loc = [c \in Callers |-> IdleLoc]
  /\ last = NoCall
  /\ calls = 0

\* Calls of the allocator alone.
NextAllocate == \E c \in SingleCaller : GenerateUniqueIdCall(c)

SpecAllocate == InitAllocate /\ [][NextAllocate]_vars

\* The steps of a running create_server at caller c.
CreateSteps(c) ==
  \/ Mkdir(c)
  \/ MkSubdirs(c)
  \/ RefreshNew(c)
  \/ Launch(c)
  \/ LaunchFails(c)
  \/ PollInstalled(c)
  \/ PollTimeout(c)
  \/ PollExited(c)
  \/ PollSleep(c)
  \/ SendStop(c)
  \/ WaitEnds(c)
  \/ WaitSleep(c)
  \/ Finish(c)

\* One create_server(name, install_timeout) call per run, and the session's
\* process.
NextCreate ==
  \/ \E c \in SingleCaller :
       \/ \E s \in Slots, name \in NAMES, timeout \in TIMEOUTS :
            calls = 0 /\ CreateBegin(c, s, name, timeout)
       \/ CreateSteps(c)
  \/ EndstoneInstalls
  \/ CommandEnds
  \/ SessionExits

\* The caller's thread keeps running: a create_server that can take a step
\* takes one.  Nothing is assumed of endstone or of the session.
SpecCreate ==
  /\ Init
  /\ [][NextCreate]_vars
  /\ WF_vars(\E c \in SingleCaller : CreateSteps(c))

\* Two callers (threads or processes with a ServerManager on the same
\* project) inside create_server at the same time: the steps of the two
\* calls interleave in any order, on an empty servers/ folder.  The
\* validation and the identifier draw, which read servers/ one after the
\* other, are steps of their own here.
InitConcurrent ==
  /\ serversDir = TRUE
  /\ fs = [n \in {} |-> EmptyDir]
  /\ sessions = {}
  /\ stopped = {}
  /\ echoed = {}
  /\ strict_names \in BOOLEAN
  /\ outside = [p \in OUTSIDE_FOLDERS |-> None]
  /\ ent = [s \in Slots |-> None]
  /\ pc = [c \in Callers |-> "idle"]
  /\ loc = [c \in Callers |-> IdleLoc]
  /\ last = NoCall
  /\ calls = 0

NextConcurrent ==
  \/ \E c \in Callers :
       \/ \E name \in NAMES : CreateRejected(c, name)
       \/ \E s \in Slots, name \in NAMES, timeout \in TIMEOUTS :
            CreateValidate(c, s, name, timeout)
       \/ DrawId(c)
       \/ CreateSteps(c)
  \/ EndstoneInstalls
  \/ CommandEnds
  \/ SessionExits

SpecConcurrent == InitConcurrent /\ [][NextConcurrent]_vars

\* ------------------------------------------------------------- properties

\* No caller is inside a call.
Idle == \A c \in Callers : pc[c] = "idle"

\* The identifiers of the listed server folders, lowercased.
LowerIds(f) == {Lower(x) : x \in ListServerIds(f)}

\* In this step caller c's create_server draws its identifier.
Draws(c) == pc[c] = "idle" /\ pc'[c] = "mkdir"

\* In this step caller c's create_server returns its entity.
Returns(c) == pc[c] = "finish" /\ pc'[c] = "idle" /\ last'.exc = "none"

\* This step is a whole call of operation op (it starts and ends in it).
Whole(op) ==
  /\ calls' = calls + 1
  /\ last'.op = op
  /\ pc' = pc

\* The numbers of entities named `name` list_server_objects() can return.
EntitiesNamed(f, name) ==
  { LET objs == ListServerObjects(f, o).objs
    IN  Cardinality({i \in 1..Len(objs) : objs[i].name = name})
    : o \in Orders(ServerDirs(f)) }

\* The identifiers of the entities named `name` list_server_objects() returns.
IdsNamed(f, name) ==
  UNION { LET objs == ListServerObjects(f, o).objs
          IN  {objs[i].server_id : i \in {j \in 1..Len(objs) : objs[j].name = name}}
          : o \in Orders(ServerDirs(f)) }

\* id is groups of GROUP_SIZE alphabet characters separated by "-".
GroupedId(id) == \E g \in 1..MaxGroups : MatchesBody(id, g)

\* C1: _generate_unique_id never returns a value that equals, ignoring
\* case, the identifier of a server folder present when it is called:
\* neither any value it can return in a reachable state, nor the value a
\* create_server call draws.
C1_FreshIdentifier ==
  [][ /\ \A id \in GenerateUniqueId(fs) : Lower(id) \notin LowerIds(fs)
      /\ \A c \in Callers :
           Draws(c) => Lower(Val(loc'[c].srv.server_id)) \notin LowerIds(fs)
    ]_vars

\* create_server has drawn an identifier of more than one group because
\* every one-group identifier is taken.
C1_Witness ==
  \E c \in Callers :
    /\ pc[c] = "mkdir"
    /\ Words(GROUP_SIZE) \subseteq LowerIds(fs)
    /\ Len(Val(loc[c].srv.server_id)) > GROUP_SIZE
    /\ Lower(Val(loc[c].srv.server_id)) \notin LowerIds(fs)

\* The identifiers of the server folders are pairwise distinct, ignoring case.
IdsDistinct(f) ==
  \A m, n \in ServerDirs(f) :
    m # n => Lower(SplitFirst(m)[2]) # Lower(SplitFirst(n)[2])

\* C2: with a single caller, no step of create_server, rename_server,
\* delete_server or resolve_id_conflicts takes a servers/ folder whose
\* identifiers are pairwise distinct (ignoring case) to one where two
\* server folders share an identifier.
C2_IdsStayDistinct == [][IdsDistinct(fs) => IdsDistinct(fs')]_vars

\* C3 as stated: when create_server(name) returns, list_server_objects()
\* has exactly one entity of that name, and its identifier is non-null and
\* made of groups of alphabet characters.
C3_ExactlyOneGrouped ==
  [][ \A c \in Callers : Returns(c) =>
        /\ EntitiesNamed(fs', last'.arg) = {1}
        /\ \A id \in IdsNamed(fs', last'.arg) : id # None /\ GroupedId(Val(id))
    ]_vars

\* C3, amended: when create_server(name) returns, list_server_objects()
\* has at least one entity of that name, and exactly one when strict_names
\* is enabled; the returned entity's identifier is non-null and is made of
\* groups of alphabet characters or is the allocator's UUID fallback.
C3_OneWhenStrict ==
  [][ \A c \in Callers : Returns(c) =>
        /\ \A k \in EntitiesNamed(fs', last'.arg) : k >= 1
        /\ strict_names => EntitiesNamed(fs', last'.arg) = {1}
        /\ loc[c].srv.name = last'.arg
        /\ loc[c].srv.server_id \in IdsNamed(fs', last'.arg)
        /\ loc[c].srv.server_id # None
        /\ \/ GroupedId(Val(loc[c].srv.server_id))
           \/ Val(loc[c].srv.server_id) \in UUIDS
    ]_vars

\* create_server has returned under strict_names next to another server:
\* the listing has one entity of the new name.
C3_Witness ==
  /\ Idle
  /\ last.op = "create"
  /\ last.exc = "none"
  /\ strict_names
  /\ EntitiesNamed(fs, last.arg) = {1}
  /\ Cardinality(ServerDirs(fs)) >= 2

\* The names create_server(name) refuses, in the words of the claim: empty
\* or whitespace only, with one of the five characters, already existing,
\* or (strict_names) the name of a listed server.
InvalidName(name, f) ==
  \/ IsBlank(name)
  \/ \E ch \in {"-", ":", "/", "\\", DELIMITER} : Contains(name, ch)
  \/ IsDir(f, ServersPath(name))
  \/ strict_names /\ name \in ListServerNames(f)

\* C4: wherever a call is made, create_server with an invalid name raises
\* ServerCreationError, and does so before anything is changed: no invalid name gets as far as the
\* identifier draw, and the refused call leaves the folders and files under
\* servers/ and the set of sessions as they were.
C4_RefusedBeforeMutation ==
  [][ /\ calls' = calls + 1 =>
           \A n \in NAMES \cup BAD_NAMES :
             InvalidName(n, fs) =>
               CreateCheck(NewServer(fs, n, None), fs) = "ServerCreationError"
      /\ \A c \in Callers :
           (Draws(c) /\ ~loc'[c].byRef) => ~InvalidName(loc'[c].arg, fs)
      /\ (Whole("create") /\ last'.ret = "rejected") =>
           /\ fs' = fs
           /\ serversDir' = serversDir
           /\ sessions' = sessions
    ]_vars

\* A create_server call was refused with ServerCreationError while servers
\* were listed.
C4_Witness ==
  /\ Idle
  /\ last.op = "create"
  /\ last.ret = "rejected"
  /\ last.exc = "ServerCreationError"
  /\ ServerDirs(fs) # {}
  /\ sessions = {}

\* C5: when create_server returns, the folder <name>@<identifier> exists
\* with the subfolders config, extra, server and state; its server.json
\* holds the name and identifier its folder name splits into; state.json
\* holds running = false; kherimoya.yaml holds type = python; the returned
\* entity exists and its path is that folder.
C5_CreatedLayout ==
  [][ \A c \in Callers : Returns(c) =>
        LET e == Val(ent'[loc[c].slot])
            d == FolderName(last'.arg, e.server_id)
        IN  /\ e.server_id # None
            /\ e.name = last'.arg
            /\ IsDir(fs', <<SERVERS, d>>)
            /\ \A sd \in SUBDIRS : IsDir(fs', <<SERVERS, d, sd>>)
            /\ fs'[d].json = Some([name |-> SplitFirst(d)[1],
                                   id |-> Some(SplitFirst(d)[2])])
            /\ fs'[d].state = Some(FALSE)
            /\ fs'[d].yaml = Some("python")
            /\ e.exists
            /\ e.path = <<SERVERS, d>>
    ]_vars

\* create_server has returned an entity whose folder holds the three files.
C5_Witness ==
  /\ Idle
  /\ last.op = "create"
  /\ last.exc = "none"
  /\ \E s \in Slots :
       /\ ent[s] # None
       /\ Val(ent[s]).exists
       /\ Val(ent[s]).name = last.arg
       /\ IsDir(fs, Val(ent[s]).path)
       /\ fs[PathName(Val(ent[s]).path)].json # None
       /\ fs[PathName(Val(ent[s]).path)].state = Some(FALSE)
       /\ fs[PathName(Val(ent[s]).path)].yaml = Some("python")

\* C6: when create_server fails because the session could not be created
\* (ServerCreationError) or the installation timed out (TimeoutError), the
\* folder it had created no longer exists when the error reaches the
\* caller.
C6_FailedLaunchRemovesFolder ==
  [][ \A c \in Callers :
        ( /\ pc[c] \in {"launch", "poll"}
          /\ pc'[c] = "idle"
          /\ last'.ret \in {"launch", "poll"} )
        => ~PathExists(fs', BasePath(c))
    ]_vars

\* C7: when create_server fails with ServerCreationError because the
\* session disappeared during the installation, the folder it had created
\* no longer exists when the error reaches the caller.
C7_ExitedRemovesFolder ==
  [][ \A c \in Callers :
        (pc[c] = "poll" /\ pc'[c] = "idle" /\ last'.ret = "exited")
        => ~PathExists(fs', BasePath(c))
    ]_vars

\* C8: after rename_server(entity, new_name) succeeds, the entity's
\* identifier is what it was, its name is new_name, its path is
\* servers/<new_name>@<identifier>, the old path is not a directory, the
\* new path is, and its server.json holds new_name and the identifier.
C8_RenamePostconditions ==
  [][ (Whole("rename") /\ last'.exc = "none") =>
        \E s \in Slots, how \in OBJECTS :
          /\ HasObject(s, how)
          /\ ent'[s] # None
          /\ LET e  == Object(s, how)
                 e2 == Val(ent'[s])
                 n  == last'.arg
             IN  /\ [ent |-> e2, fs |-> fs', exc |-> "none"] = RenameResult(e, n, fs)
                 /\ e2.server_id = e.server_id
                 /\ e2.name = n
                 /\ e2.server_id # None
                 /\ e2.path = <<SERVERS, n \o <<DELIMITER>> \o Val(e2.server_id)>>
                 /\ ~IsDir(fs', e.path)
                 /\ IsDir(fs', e2.path)
                 /\ fs'[PathName(e2.path)].json = Some([name |-> n, id |-> e.server_id])
    ]_vars

\* The new names rename_server refuses, in the words of the claim.
InvalidNewName(name, f) ==
  \/ IsBlank(name)
  \/ \E ch \in {"-", ":", "/", "\\", DELIMITER} : Contains(name, ch)
  \/ strict_names /\ name \in ListServerNames(f)

\* C9: wherever rename_server is called, it raises FileNotFoundError for
\* an entity that does not exist and ServerRenameError for an invalid new
\* name of one that does, and either way leaves the filesystem and the
\* entity's name, identifier, path and exists flag as they were.
C9_FailedRenameChangesNothing ==
  [][ /\ Whole("rename") =>
           \A s \in Slots, how \in OBJECTS, n \in NAMES \cup BAD_NAMES :
             HasObject(s, how) =>
               LET e == Object(s, how)
                   r == RenameResult(e, n, fs)
               IN  /\ ~e.exists =>
                         r = [ent |-> e, fs |-> fs, exc |-> "FileNotFoundError"]
                   /\ (e.exists /\ IsDir(fs, e.path) /\ InvalidNewName(n, fs)) =>
                         r = [ent |-> e, fs |-> fs, exc |-> "ServerRenameError"]
      /\ ( /\ Whole("rename")
           /\ last'.exc \in {"FileNotFoundError", "ServerRenameError"} ) =>
           /\ fs' = fs
           /\ \E s \in Slots, how \in OBJECTS :
                /\ HasObject(s, how)
                /\ ent' = [ent EXCEPT ![s] = Some(Object(s, how))]
    ]_vars

\* rename_server has refused a new name for an existing entity.
C9_Witness ==
  /\ Idle
  /\ last.op = "rename"
  /\ last.exc = "ServerRenameError"
  /\ \E s \in Slots :
       /\ ent[s] # None
       /\ Val(ent[s]).exists
       /\ IsDir(fs, Val(ent[s]).path)

\* C10: after delete_server(entity) succeeds, the entity's folder no
\* longer exists, and get_server_by_id of the entity's identifier returns
\* None unless another server folder carries that identifier (ignoring
\* case, as the lookup compares).
C10_DeletedIsGone ==
  [][ (Whole("delete") /\ last'.exc = "none") =>
        \E s \in Slots, how \in OBJECTS :
          /\ HasObject(s, how)
          /\ ent' = [ent EXCEPT ![s] = Some(Object(s, how))]
          /\ LET e == Object(s, how)
             IN  /\ e.exists
                 /\ IsDir(fs, e.path)
                 /\ ~PathExists(fs', e.path)
                 /\ \A sd \in SUBDIRS : ~IsDir(fs', PathJoin(e.path, sd))
                 /\ (e.server_id # None /\ Lower(Val(e.server_id)) \notin LowerIds(fs')) =>
                      \A o \in Orders(ServerDirs(fs')) :
                        FoundIndex(ListServerObjects(fs', o).objs, Val(e.server_id)) = 0
    ]_vars

\* delete_server has removed the folder of an entity that has an
\* identifier, while another server is still listed.
C10_Witness ==
  /\ Idle
  /\ last.op = "delete"
  /\ last.exc = "none"
  /\ ServerDirs(fs) # {}
  /\ \E s \in Slots :
       /\ ent[s] # None
       /\ Val(ent[s]).exists
       /\ Val(ent[s]).server_id # None
       /\ ~PathExists(fs, Val(ent[s]).path)
       /\ Lower(Val(Val(ent[s]).server_id)) \notin LowerIds(fs)

\* C11: wherever delete_server is called, an entity whose exists flag is
\* false or whose path is not a directory (a second delete_server on the
\* same object, say) gets FileNotFoundError, and the failed call changes
\* nothing on the filesystem.
C11_DeleteMissingFails ==
  [][ /\ Whole("delete") =>
           \A s \in Slots, how \in OBJECTS :
             (HasObject(s, how) /\ ( \/ ~Object(s, how).exists
                                     \/ ~IsDir(fs, Object(s, how).path) ))
             => DeleteCheck(Object(s, how), fs) = "FileNotFoundError"
      /\ (Whole("delete") /\ last'.exc = "none") =>
           \E s \in Slots, how \in OBJECTS :
             /\ HasObject(s, how)
             /\ ent' = [ent EXCEPT ![s] = Some(Object(s, how))]
             /\ Object(s, how).exists
             /\ IsDir(fs, Object(s, how).path)
      /\ (Whole("delete") /\ last'.exc # "none") =>
           /\ last'.exc = "FileNotFoundError"
           /\ fs' = fs
           /\ serversDir' = serversDir
    ]_vars

\* delete_server has failed on an object whose folder an earlier call
\* removed: the flag is still set, the path is not a directory.
C11_Witness ==
  /\ Idle
  /\ calls = 2
  /\ last.op = "delete"
  /\ last.exc = "FileNotFoundError"
  /\ \E s \in Slots :
       /\ ent[s] # None
       /\ Val(ent[s]).exists
       /\ ~IsDir(fs, Val(ent[s]).path)

\* The previous call was a resolve_id_conflicts that returned.
AfterResolve == Idle /\ last.op = "resolve" /\ last.exc = "none"

\* C12: resolve_id_conflicts called right after a resolve_id_conflicts
\* that returned (no other call in between) returns False and renames no
\* folder.
C12_ResolveIdempotent ==
  [][ (AfterResolve /\ Whole("resolve")) =>
        /\ last'.exc = "none"
        /\ last'.ret = "False"
        /\ DOMAIN fs' = DOMAIN fs
        /\ \A o \in Orders(ServerDirs(fs)) : \A r \in ResolveResults(fs, o) :
             r.exc = "none" /\ ~r.ret /\ DOMAIN r.fs = DOMAIN fs
    ]_vars

\* Two resolve_id_conflicts calls were made on a servers/ folder of three
\* servers: the second found the identifiers distinct.
C12_Witness ==
  /\ AfterResolve
  /\ calls = 2
  /\ last.ret = "False"
  /\ Cardinality(ServerDirs(fs)) = 3
  /\ \E n \in ServerDirs(fs) : SplitFirst(n)[2] \notin {<<"x">>, <<"X">>}

\* The server folders of f that carry the identifier of folder n, ignoring
\* case.
SameId(f, n) ==
  {m \in ServerDirs(f) : Lower(SplitFirst(m)[2]) = Lower(SplitFirst(n)[2])}

\* Folder n comes first of the set K in the enumeration o.
FirstOf(o, K, n) ==
  /\ n \in K
  /\ \A m \in K : \A i, j \in DOMAIN o : (o[i] = n /\ o[j] = m) => i <= j

\* What C13 says of a resolve_id_conflicts over enumeration o that took
\* filesystem f to r.fs and returned r.ret.
ResolvedAs(f, o, r) ==
  /\ r.exc = "none"
  /\ r.ret = (\E n \in ServerDirs(f) : Cardinality(SameId(f, n)) >= 2)
  /\ \A n \in ServerDirs(f) :
       LET K == SameId(f, n)
       IN  /\ n \in DOMAIN r.fs <=> FirstOf(o, K, n)
           /\ Cardinality(K \ DOMAIN r.fs) = Cardinality(K) - 1
  /\ Cardinality(ServerDirs(r.fs)) = Cardinality(ServerDirs(f))
  /\ \A n \in ServerDirs(r.fs) \ ServerDirs(f) :
       /\ Lower(SplitFirst(n)[2]) \notin LowerIds(f)
       /\ \E m \in ServerDirs(f) \ DOMAIN r.fs :
            /\ SplitFirst(m)[1] = SplitFirst(n)[1]
            /\ [r.fs[n] EXCEPT !.json = None] = [f[m] EXCEPT !.json = None]

\* C13: when k >= 2 server folders share an identifier (ignoring case),
\* resolve_id_conflicts returns True, k-1 of them are renamed to a newly
\* allocated identifier and the first enumerated one keeps its folder
\* name; when no two share an identifier it returns False and renames
\* nothing.
C13_ResolveRenamesAllButFirst ==
  /\ [] ( (Idle /\ calls < MaxCalls) =>
            \A o \in Orders(ServerDirs(fs)) : \A r \in ResolveResults(fs, o) :
              ResolvedAs(fs, o, r) )
  /\ [][ Whole("resolve") =>
           \E o \in Orders(ServerDirs(fs)) :
             ResolvedAs(fs, o, [fs |-> fs', exc |-> last'.exc,
                                ret |-> (last'.ret = "True")])
       ]_vars

\* resolve_id_conflicts has returned True on three folders that shared an
\* identifier: one kept its name, two carry new identifiers.
C13_Witness ==
  /\ AfterResolve
  /\ calls = 1
  /\ last.ret = "True"
  /\ Cardinality(ServerDirs(fs)) = 3
  /\ Cardinality({n \in ServerDirs(fs) : Lower(SplitFirst(n)[2]) = <<"x">>}) = 1
  /\ IdsDistinct(fs)

\* C14: after resolve_id_conflicts returns without raising, the
\* identifiers of all server folders are pairwise distinct, ignoring case,
\* whatever collisions there were before.
C14_ResolveLeavesDistinct ==
  /\ [] ( (Idle /\ calls < MaxCalls) =>
            \A o \in Orders(ServerDirs(fs)) : \A r \in ResolveResults(fs, o) :
              r.exc = "none" => IdsDistinct(r.fs) )
  /\ [][ (Whole("resolve") /\ last'.exc = "none") => IdsDistinct(fs') ]_vars

\* resolve_id_conflicts has returned on folders that held a mixed-case
\* duplicate among three colliding identifiers.
C14_Witness ==
  /\ AfterResolve
  /\ last.ret = "True"
  /\ IdsDistinct(fs)
  /\ Cardinality(ServerDirs(fs)) = 3
  /\ \E n \in ServerDirs(fs) : Len(SplitFirst(n)[2]) > GROUP_SIZE

\* The object a whole call of this step was made on: the one the caller
\* holds in slot s after it.
CalledOn(s, how) ==
  /\ HasObject(s, how)
  /\ ent' = [ent EXCEPT ![s] = Some(Object(s, how))]
  /\ last'.on = Some(Object(s, how))

\* C15: start_server on an entity that does not exist (its exists flag is
\* false, or its folder has been removed since it was last refreshed)
\* fails with ServerDoesNotExistError and creates or kills no session.
C15_StartMissingFails ==
  [][ Whole("start") =>
        \A s \in Slots, how \in OBJECTS :
          ( /\ CalledOn(s, how)
            /\ \/ ~Object(s, how).exists
               \/ ~IsDir(fs, Object(s, how).path) )
          => /\ last'.exc = "ServerDoesNotExistError"
             /\ sessions' = sessions
    ]_vars

\* C16: stop_server fails with ServerDoesNotExistError when the exists
\* flag is false, and otherwise with ServerNotRunningError when the running
\* flag is false (the existence check comes first, whatever the flags);
\* in both cases no "stop" line is sent to any session.
C16_StopChecksFlags ==
  [][ Whole("stop") =>
        \A s \in Slots, how \in OBJECTS :
          CalledOn(s, how) =>
            LET e == Object(s, how)
            IN  /\ \A ex, run \in BOOLEAN :
                     Checkserver([e EXCEPT !.exists = ex, !.running = run], TRUE, TRUE)
                       = IF ~ex THEN "ServerDoesNotExistError"
                         ELSE IF ~run THEN "ServerNotRunningError"
                         ELSE "none"
                /\ ~e.exists => last'.exc = "ServerDoesNotExistError"
                /\ (e.exists /\ ~e.running) => last'.exc = "ServerNotRunningError"
                /\ last'.exc \in {"ServerDoesNotExistError", "ServerNotRunningError"} =>
                     /\ stopped' = stopped
                     /\ sessions' = sessions
    ]_vars

\* stop_server was refused with ServerNotRunningError on an existing
\* entity while a session exists; no session has received "stop".
C16_Witness ==
  /\ Idle
  /\ last.op = "stop"
  /\ last.exc = "ServerNotRunningError"
  /\ sessions # {}
  /\ stopped = {}
  /\ \E s \in Slots : ent[s] # None /\ Val(ent[s]).exists

\* A TimeoutError is raised only by a call with a finite install_timeout
\* whose marker is absent, and its session is gone when it is raised.
TimeoutOnlyWhenFinite ==
  [][ \A c \in Callers :
        (pc[c] = "poll" /\ pc'[c] = "idle" /\ last'.exc = "TimeoutError") =>
          /\ loc[c].timeout # None
          /\ ~Installed(c)
          /\ SessionName(c) \notin sessions'
    ]_vars

Polls(c) ==
  /\ pc[c] = "poll"
  /\ pc'[c] # pc[c] \/ loc'[c] # loc[c]

\* C18: a poll of the installation wait made while the marker is absent
\* and the timeout has not passed, after the command has finished and put
\* its end marker into the pane or after the session has disappeared,
\* raises ServerCreationError.
C18_ExitRaisesAtPoll ==
  [][ \A c \in Callers :
        ( /\ Polls(c)
          /\ ~Installed(c)
          /\ ~TimedOut(c)
          /\ \/ SessionName(c) \in echoed
             \/ SessionName(c) \notin sessions )
        => /\ pc'[c] = "idle"
           /\ last'.exc = "ServerCreationError"
    ]_vars

\* C19: when create_server returns its entity, the server's session no
\* longer exists.
C19_ReturnsWithoutSession ==
  [][ \A c \in Callers : Returns(c) => SessionName(c) \notin sessions' ]_vars

\* The names of the server folders are pairwise distinct.
NamesDistinct(f) ==
  \A m, n \in ServerDirs(f) : m # n => SplitFirst(m)[1] # SplitFirst(n)[1]

\* C20: with strict_names enabled and a single caller, no step of
\* create_server, rename_server, delete_server or resolve_id_conflicts
\* takes a servers/ folder whose server names are pairwise distinct to one
\* where two server folders have the same name.
C20_NamesStayDistinct ==
  [][ (strict_names /\ NamesDistinct(fs)) => NamesDistinct(fs') ]_vars

\* Under strict_names a second server was created, or one renamed, next to
\* another: the names differ.
C20_Witness ==
  /\ Idle
  /\ strict_names
  /\ last.op \in {"create", "rename"}
  /\ last.exc = "none"
  /\ Cardinality(ServerDirs(fs)) >= 2
  /\ NamesDistinct(fs)

\* The directories directly under servers/ whose name has the delimiter.
DelimitedDirs ==
  IF serversDir
    THEN {n \in DOMAIN fs : fs[n].kind = "dir" /\ Contains(n, DELIMITER)}
    ELSE {}

\* What an enumeration of kind op returns for folder n, split at its first
\* delimiter; for list_server_objects the (name, identifier) of the entity.
EntryOf(op, n) ==
  LET i == FirstIndex(n, DELIMITER)
      name == SubSeq(n, 1, i - 1)
      id == SubSeq(n, i + 1, Len(n))
  IN  CASE op = "list_server_names" -> name
        [] op = "list_server_ids" -> id
        [] OTHER -> <<name, id>>

\* The list as (name, identifier) pairs when it is a list of entities.
Listed(l) ==
  IF l.op = "list_server_objects"
    THEN [i \in DOMAIN l.objs |-> <<l.objs[i].name, Fmt(l.objs[i].server_id)>>]
    ELSE l.objs

ENUMERATIONS ==
  {"_list_servers", "list_server_names", "list_server_ids", "list_server_objects"}

\* C21: _list_servers, list_server_ids, list_server_names and
\* list_server_objects (nothing vanishing meanwhile) return, in some order,
\* exactly one entry for each directory directly under servers/ whose name
\* has the delimiter, split at the first delimiter, and none for a folder
\* without the delimiter or a non-directory; the list is empty when
\* servers/ is no directory.
C21_EnumerationListsServers ==
  [][ (calls' = calls + 1 /\ last'.op \in ENUMERATIONS /\ last'.ret = "") =>
        /\ \E o \in Orders(DelimitedDirs) :
             Listed(last') = [i \in 1..Len(o) |-> EntryOf(last'.op, o[i])]
        /\ ~serversDir => last'.objs = <<>>
    ]_vars

\* An enumeration returned two entries from a servers/ that also holds a
\* regular file with the delimiter in its name and a folder without it.
C21_Witness ==
  /\ Idle
  /\ last.op \in ENUMERATIONS
  /\ Len(last.objs) = 2
  /\ \E n \in DOMAIN fs : fs[n].kind = "file" /\ Contains(n, DELIMITER)
  /\ \E n \in DOMAIN fs : fs[n].kind = "dir" /\ ~Contains(n, DELIMITER)

\* Some server directory has an identifier equal to x, case-insensitively.
HasIdentifier(x) ==
  \E n \in DelimitedDirs :
    Lower(SubSeq(n, FirstIndex(n, DELIMITER) + 1, Len(n))) = Lower(x)

\* C22: get_server_by_id(x) returns an entity whose identifier equals x
\* case-insensitively whenever some server directory has such an
\* identifier, and returns None exactly when none has.
C22_FindsById ==
  [][ Whole("get_server_by_id") =>
        LET x == last'.arg
        IN  /\ HasIdentifier(x) =>
                 /\ last'.ret = "entity"
                 /\ Len(last'.objs) = 1
                 /\ last'.objs[1].server_id # None
                 /\ Lower(Val(last'.objs[1].server_id)) = Lower(x)
            /\ last'.ret = "None" <=> ~HasIdentifier(x)
    ]_vars

\* The entity is consistent: when it exists the last segment of its path
\* is name + DELIMITER + identifier, and without identifier it does not
\* exist.
Consistent(e) ==
  /\ e.exists =>
       /\ e.server_id # None
       /\ PathName(e.path) = e.name \o <<DELIMITER>> \o Val(e.server_id)
  /\ e.server_id = None => ~e.exists

\* C23: every KherimoyaServer object the caller holds (constructed, or left
\* by refresh, create, rename, resolve or delete) is consistent.
C23_EntitiesConsistent ==
  \A s \in Slots : ent[s] # None => Consistent(Val(ent[s]))

\* This step is a whole call that selected a method which is not
\* implemented: start_server or stop_server with "plugin" or an undeclared
\* value, or a create_server that passed validation and did not take the
\* "python" path.
SelectsUnimplemented ==
  \/ /\ Whole("start") \/ Whole("stop")
     /\ last'.ret \in {"plugin", UNDECLARED_METHOD}
  \/ /\ Whole("create")
     /\ last'.ret # "rejected"

\* C24: every call that selects a method other than the implemented one
\* ends in a raised error, never in a normal return, and creates no
\* directory and no session.
C24_UnimplementedRaises ==
  [][ SelectsUnimplemented =>
        /\ last'.exc # "none"
        /\ DOMAIN fs' = DOMAIN fs
        /\ sessions' = sessions
    ]_vars

\* Entities a and b are bound alike.
SameBinding(a, b) ==
  /\ a.name = b.name
  /\ a.server_id = b.server_id
  /\ a.path = b.path
  /\ a.exists = b.exists

\* The refresh of this step left its entity bound as it was.
EntityKept ==
  /\ \E s \in Slots : ent'[s] # None /\ SameBinding(Val(last'.on), Val(ent'[s]))
  /\ \A s \in Slots :
       ent'[s] # ent[s] => (ent'[s] # None /\ SameBinding(Val(last'.on), Val(ent'[s])))

\* C25: refresh(newPath) with an existing directory newPath whose parent is
\* not the registry's servers root (a directory named "servers" under
\* another root included) fails with ServerNotInPathError, leaves name,
\* identifier, path and exists flag unchanged and writes no metadata file.
C25_RefreshOutsideFails ==
  [][ ( /\ Whole("refresh")
        /\ IsDir(fs, last'.path)
        /\ PathParent(last'.path) # <<SERVERS>> )
      => /\ last'.exc = "ServerNotInPathError"
         /\ EntityKept
         /\ fs' = fs
         /\ outside' = outside
    ]_vars

\* C26: a stale refresh is a no-op: on an entity whose exists flag is true,
\* refresh(newPath) with a newPath that is no directory returns without
\* raising and changes none of name, identifier, path, exists, nor any
\* file, also when the entity's own directory has been deleted.
C26_StaleRefreshIsNoOp ==
  [][ ( /\ Whole("refresh")
        /\ Val(last'.on).exists
        /\ ~IsDir(fs, last'.path) )
      => /\ last'.exc = "none"
         /\ EntityKept
         /\ fs' = fs
         /\ outside' = outside
    ]_vars

\* The position of a step of create_server in the order of the source.
Rank(p) ==
  CASE p = "idle" -> 0
    [] p = "mkdir" -> 1
    [] p = "subdirs" -> 2
    [] p = "refresh" -> 3
    [] p = "launch" -> 4
    [] p = "poll" -> 5
    [] p = "stop" -> 6
    [] p = "wait" -> 7
    [] p = "finish" -> 8

\* Caller c's create_server goes from step p to step q in this step.
Goes(c, p, q) == pc[c] = p /\ pc'[c] = q

\* What the step caller c's create_server takes here has done, by the
\* step it is.
StepDone(c) ==
  LET base == loc'[c].base
      sn == SessionName(c)
  IN  /\ Goes(c, "idle", "mkdir") => loc'[c].srv.server_id # None
      /\ Goes(c, "mkdir", "subdirs") =>
           /\ base \notin DOMAIN fs
           /\ IsDir(fs', <<SERVERS, base>>)
      /\ Goes(c, "subdirs", "refresh") =>
           \A d \in SUBDIRS : IsDir(fs', <<SERVERS, base, d>>)
      /\ Goes(c, "refresh", "launch") => fs'[base].json # None
      /\ Goes(c, "launch", "poll") =>
           /\ IsDir(fs, <<SERVERS, base>>)
           /\ \A d \in SUBDIRS : IsDir(fs, <<SERVERS, base, d>>)
           /\ fs[base].json # None
           /\ sn \in sessions'
      /\ Goes(c, "poll", "stop") => IsDir(fs, <<SERVERS, base, <<"server">>, WORLDS>>)
      /\ Goes(c, "stop", "wait") => (sn \in sessions => sn \in stopped')
      /\ Goes(c, "wait", "finish") =>
           (sn \notin sessions \/ loc[c].elapsed > ShutdownTicks)
      /\ Returns(c) =>
           /\ fs'[loc[c].base].state # None
           /\ fs'[loc[c].base].yaml # None

\* C27: the steps of create_server occur in the order of the source, none
\* skipped on the way to a normal return: identifier, directory, the four
\* subdirectories, server.json, session, installation marker, "stop",
\* shutdown wait, state.json and kherimoya.yaml.  A session is launched
\* only for a directory that exists, and state.json is written only after
\* "stop" was sent.
C27_CreateStepsInOrder ==
  [][ \A c \in Callers :
        /\ pc'[c] # pc[c] =>
             \/ Rank(pc'[c]) = Rank(pc[c]) + 1
             \/ pc'[c] = "idle"
        /\ (pc'[c] = "idle" /\ pc[c] # "idle" /\ last'.exc = "none") => pc[c] = "finish"
        /\ StepDone(c)
        /\ (pc[c] # "idle" /\ sessions' \ sessions # {}) => Goes(c, "launch", "poll")
        /\ ( /\ pc[c] # "idle"
             /\ loc[c].base \in DOMAIN fs /\ loc[c].base \in DOMAIN fs'
             /\ fs'[loc[c].base].state # fs[loc[c].base].state
             /\ fs'[loc[c].base].state # None )
           => Goes(c, "finish", "idle")
    ]_vars

\* create_server has returned its entity; its session got "stop" and is
\* still there (the shutdown wait ended by time).
C27_Witness ==
  /\ Idle
  /\ last.op = "create"
  /\ last.ret = "entity"
  /\ \E n \in sessions \cap stopped :
       /\ n \in DOMAIN fs
       /\ fs[n].state # None
       /\ fs[n].json # None
       /\ fs[n].worlds

\* A rename of folder n can be blocked: a regular file of servers/ has its
\* name part.
Blockable(n) ==
  \E k \in DOMAIN fs :
    /\ fs[k].kind = "file"
    /\ Contains(k, DELIMITER)
    /\ SplitFirst(k)[1] = SplitFirst(n)[1]

\* C28: resolve_id_conflicts does not abort when the rename or refresh of
\* one conflicting entity fails: it raises nothing, and the folders whose
\* rename nothing blocks no longer share an identifier afterwards.
C28_ResolveSkipsFailures ==
  [][ Whole("resolve") =>
        /\ last'.exc = "none"
        /\ \A m, n \in ServerDirs(fs') :
             (m # n /\ Lower(SplitFirst(m)[2]) = Lower(SplitFirst(n)[2]))
               => (Blockable(m) \/ Blockable(n))
    ]_vars

\* Entity e stands for the server folder n of servers/.
StandsFor(e, n) ==
  /\ e.exists
  /\ e.path = <<SERVERS, n>>
  /\ e.name = SplitFirst(n)[1]
  /\ e.server_id = Some(SplitFirst(n)[2])

\* C29: list_server_objects never raises because of one bad entry: a
\* server directory that vanishes between the scan and its refresh is left
\* out, and every other enumerated server directory is returned, once, as
\* an entity with exists = true.
C29_ListOmitsVanished ==
  [][ Whole("list_server_objects") =>
        /\ last'.exc = "none"
        /\ \E o \in Orders(ServerDirs(fs')) :
             /\ Len(last'.objs) = Len(o)
             /\ \A i \in 1..Len(o) : StandsFor(last'.objs[i], o[i])
    ]_vars

\* C30: start_server("tmux") on an entity whose exists flag is true: a
\* failure of the lookup or kill of a stale session never fails the call;
\* a failure of new_session or of sending the command always gives
\* ServerStartError; after a successful call the session
\* <name><DELIMITER><identifier> exists and is a fresh one (a previous
\* session of that name is gone), the other sessions being as before.
C30_StartReplacesSession ==
  [][ ( /\ Whole("start")
        /\ last'.ret = "tmux"
        /\ Val(last'.on).exists )
      => LET e == Val(last'.on)
             sn == FolderName(e.name, e.server_id)
         IN  /\ last'.exc \in {"none", "ServerStartError"}
             /\ last'.exc = "none" =>
                  /\ sn \in sessions'
                  /\ sn \notin stopped'
                  /\ sn \notin echoed'
                  /\ sessions' \ {sn} = sessions \ {sn}
             /\ \A killed, created, sent \in BOOLEAN :
                  LET r == StartThroughTmux(sessions, sn, killed, created, sent)
                  IN  /\ (created /\ sent) => (r.exc = "none" /\ sn \in r.sessions)
                      /\ ~(created /\ sent) => r.exc = "ServerStartError"
    ]_vars

\* start_server succeeded on an entity that exists and was refreshed in
\* this run: its session exists and has received no "stop".
C30_Witness ==
  /\ Idle
  /\ last.op = "start"
  /\ last.exc = "none"
  /\ LET e == Val(last.on)
         sn == FolderName(e.name, e.server_id)
     IN  /\ e.exists
         /\ sn \in sessions
         /\ sn \notin stopped
         /\ sn \in DOMAIN fs
         /\ fs[sn].json # None

\* The identifiers of g groups no server folder carries, ignoring case.
FreeIds(f, g) == RandomIds(g) \ LowerIds(f)

\* The group counts whose space is not fully occupied.
OpenCounts(f) == {g \in 1..MaxGroups : FreeIds(f, g) # {}}

\* C31: _generate_unique_id returns an identifier of the smallest group
\* count whose space is not fully occupied, unless draws at that count
\* collided: the returned value is no duplicate; it is never of a group
\* count whose space is full; every unused identifier of the smallest open
\* count can be returned (a first draw that is free is taken), and a value
\* of another count is returned only when some identifier of the smallest
\* open count is taken; when every one-group identifier is taken the value
\* has more groups or is the UUID fallback.
C31_SmallestOpenCount ==
  [][ Whole("_generate_unique_id") =>
        LET id == last'.arg
            open == OpenCounts(fs)
        IN  /\ Lower(id) \notin LowerIds(fs)
            /\ \A g \in (1..MaxGroups) \ open : id \notin RandomIds(g)
            /\ \A g \in open :
                 (\A h \in open : g <= h) =>
                   /\ FreeIds(fs, g) \subseteq GenerateUniqueId(fs)
                   /\ id \notin RandomIds(g) => RandomIds(g) \cap LowerIds(fs) # {}
            /\ FreeIds(fs, 1) = {} =>
                 \/ \E g \in 2..MaxGroups : id \in RandomIds(g)
                 \/ id \in UUIDS
    ]_vars

\* The steps of create_server that follow a successful mkdir.
AFTER_MKDIR == {"subdirs", "refresh", "launch", "poll", "stop", "wait", "finish"}

\* Caller c takes a step of its create_server here.
Steps(c) == pc'[c] # pc[c] \/ loc'[c] # loc[c]

\* The folders of servers/ this step creates, removes or writes into.
Touched == {n \in DOMAIN fs \cup DOMAIN fs' :
              \/ n \notin DOMAIN fs
              \/ n \notin DOMAIN fs'
              \/ fs'[n] # fs[n]}

\* C32: under any interleaving of two concurrent create_server callers, a
\* caller whose target directory exists when it reaches mkdir fails there
\* (FileExistsError) and changes no folder and no session; mkdir succeeds
\* only on a path that did not exist; no two callers are past mkdir with
\* the same directory at the same time; and every folder a caller's step
\* touches, and every session it creates or kills, is the one of its own
\* directory.
C32_MkdirExcludes ==
  /\ [] ( \A c, d \in Callers :
            (c # d /\ pc[c] \in AFTER_MKDIR /\ pc[d] \in AFTER_MKDIR)
              => loc[c].base # loc[d].base )
  /\ [][ \A c \in Callers :
           /\ (pc[c] = "mkdir" /\ Steps(c) /\ loc[c].base \in DOMAIN fs) =>
                /\ pc'[c] = "idle"
                /\ last'.exc = "FileExistsError"
                /\ fs' = fs
                /\ sessions' = sessions
           /\ Goes(c, "mkdir", "subdirs") =>
                /\ loc[c].base \notin DOMAIN fs
                /\ fs' = With(fs, loc[c].base, EmptyDir)
           /\ (pc[c] # "idle" /\ Steps(c)) =>
                /\ Touched \subseteq {loc[c].base}
                /\ (sessions' \ sessions) \cup (sessions \ sessions') \subseteq {loc[c].base}
                /\ (Touched # {} \/ sessions' # sessions) =>
                     (pc[c] = "mkdir" \/ pc[c] \in AFTER_MKDIR)
       ]_vars

\* One caller's mkdir has failed with FileExistsError on the directory the
\* other caller, still inside its create_server, had made; that directory
\* holds what its maker put there.
C32_Witness ==
  /\ last.op = "create"
  /\ last.exc = "FileExistsError"
  /\ last.ret = "mkdir"
  /\ \E c, d \in Callers :
       /\ c # d
       /\ pc[c] = "idle"
       /\ pc[d] = "launch"
       /\ loc[d].base \in DOMAIN fs
       /\ fs[loc[d].base].json # None
       /\ sessions = {}

\* Two server folders have the same name.
SameNameTwice(f) ==
  \E m, n \in ServerDirs(f) : m # n /\ SplitFirst(m)[1] = SplitFirst(n)[1]

\* Two server folders of different names have the same identifier.
SameIdTwoNames(f) ==
  \E m, n \in ServerDirs(f) :
    /\ SplitFirst(m)[1] # SplitFirst(n)[1]
    /\ Lower(SplitFirst(m)[2]) = Lower(SplitFirst(n)[2])

\* C33: the name check and the identifier check read servers/ and act
\* later, under no lock.  While one caller is between its validation and
\* its mkdir, the other caller's validation of the same name passes
\* (strict_names enabled) as long as no folder carries the name; while one
\* caller holds a drawn identifier whose folder it has not made yet, the
\* other caller's draw can return that identifier; and the two mkdir calls
\* that follow both succeed unless name and identifier are both the same,
\* leaving two folders of one name, or two names with one identifier.
C33_ChecksTakeNoLock ==
  \A c, d \in Callers :
    c # d =>
      /\ ( /\ pc[c] = "idle"
           /\ calls < MaxCalls
           /\ pc[d] \in {"draw", "mkdir"}
           /\ strict_names
           /\ loc[d].arg \notin ListServerNames(fs)
           /\ Cardinality(DOMAIN fs) < MaxDirs )
         => ENABLED (\E s \in Slots, timeout \in TIMEOUTS :
                       /\ CreateValidate(c, s, loc[d].arg, timeout)
                       /\ loc'[c].arg = loc[d].arg)
      /\ ( /\ pc[c] = "draw"
           /\ pc[d] = "mkdir"
           /\ loc[d].base \notin DOMAIN fs
           /\ Val(loc[d].srv.server_id) \in FreeIds(fs, 1) )
         => ENABLED ( /\ DrawId(c)
                      /\ loc'[c].srv.server_id = loc[d].srv.server_id )
      /\ ( /\ pc[c] = "mkdir"
           /\ pc[d] \in AFTER_MKDIR
           /\ loc[c].base # loc[d].base
           /\ loc[c].base \notin DOMAIN fs )
         => ENABLED ( /\ Mkdir(c)
                      /\ pc'[c] = "subdirs"
                      /\ loc[d].base \in DOMAIN fs'
                      /\ loc[c].arg = loc[d].arg => SameNameTwice(fs')
                      /\ ( /\ loc[c].arg # loc[d].arg
                           /\ loc[c].srv.server_id = loc[d].srv.server_id )
                         => SameIdTwoNames(fs') )

\* Both create_server calls of two concurrent callers, made with the same
\* name under strict_names, have returned their entity: two server folders
\* of that name exist.
C33_Witness ==
  /\ Idle
  /\ strict_names
  /\ calls = 2
  /\ last.op = "create"
  /\ last.exc = "none"
  /\ SameNameTwice(fs)

\* Two concurrent create_server calls with different names have made
\* folders with the same identifier.
C33_WitnessSameId ==
  /\ calls = 2
  /\ SameIdTwoNames(fs)
  /\ \A c \in Callers : pc[c] \in AFTER_MKDIR \cup {"idle"}

\* The KherimoyaServer objects of the state: those the caller holds, those
\* a running create_server works on, and those the last call was made on
\* or returned.
EntitiesOfState ==
  {Val(ent[s]) : s \in {t \in Slots : ent[t] # None}}
  \cup {loc[c].srv : c \in Callers}
  \cup (IF last.on # None THEN {Val(last.on)} ELSE {})
  \cup (IF last.op \in {"list_server_objects", "get_server_by_id"}
          THEN {last.objs[i] : i \in DOMAIN last.objs} ELSE {})

\* C34: the running flag of every KherimoyaServer is false in every
\* reachable state: construction, refresh, create_server, start_server,
\* stop_server, rename_server and resolve_id_conflicts never set it.
C34_NeverRunning == \A e \in EntitiesOfState : ~e.running

\* start_server has succeeded on an entity that create_server or a refresh
\* had bound to its folder; its session exists, and its running flag is
\* false.
C34_Witness ==
  /\ Idle
  /\ calls = 2
  /\ last.op = "start"
  /\ last.exc = "none"
  /\ \E s \in Slots :
       /\ ent[s] # None
       /\ Val(ent[s]).exists
       /\ ~Val(ent[s]).running
       /\ FolderName(Val(ent[s]).name, Val(ent[s]).server_id) \in sessions
       /\ IsDir(fs, Val(ent[s]).path)
       /\ fs[PathName(Val(ent[s]).path)].json # None

\* The last call was a start_server that succeeded.
AfterStart == Idle /\ last.op = "start" /\ last.exc = "none"

AllDirs(f) == {n \in DOMAIN f : f[n].kind = "dir"}

\* How many server folders of f have the name `name`.
NameCount(f, name) ==
  Cardinality({n \in ServerDirs(f) : SplitFirst(n)[1] = name})

\* The folder content apart from server.json.
Payload(d) == [d EXCEPT !.json = None]

\* C36: resolve_id_conflicts changes identifiers only.  Whether it returns
\* or raises, the number of directories and of server directories is as
\* before, every server name occurs as often as before, every server
\* directory whose identifier no other one shares (ignoring case) keeps its
\* folder name, every other entry of servers/ is untouched, and a folder
\* name that is new is an old folder (now gone) of the same name with what
\* it held: nothing is deleted or created.
C36_ResolveKeepsFolders ==
  [][ Whole("resolve") =>
        /\ serversDir' = serversDir
        /\ Cardinality(AllDirs(fs')) = Cardinality(AllDirs(fs))
        /\ Cardinality(ServerDirs(fs')) = Cardinality(ServerDirs(fs))
        /\ \A n \in ServerDirs(fs) \cup ServerDirs(fs') :
             NameCount(fs', SplitFirst(n)[1]) = NameCount(fs, SplitFirst(n)[1])
        /\ \A n \in ServerDirs(fs) :
             Cardinality(SameId(fs, n)) = 1 =>
               (n \in DOMAIN fs' /\ Payload(fs'[n]) = Payload(fs[n]))
        /\ \A n \in DOMAIN fs \ ServerDirs(fs) :
             n \in DOMAIN fs' /\ fs'[n] = fs[n]
        /\ \A n \in DOMAIN fs' \ DOMAIN fs :
             \E m \in ServerDirs(fs) \ DOMAIN fs' :
               /\ SplitFirst(m)[1] = SplitFirst(n)[1]
               /\ Payload(fs'[n]) = Payload(fs[m])
        /\ Cardinality(DOMAIN fs' \ DOMAIN fs) = Cardinality(DOMAIN fs \ DOMAIN fs')
    ]_vars

\* resolve_id_conflicts has returned True on a servers/ folder that also
\* holds a regular file: a folder carries a new identifier, three server
\* folders and the file are there.
C36_Witness ==
  /\ AfterResolve
  /\ last.ret = "True"
  /\ Cardinality(ServerDirs(fs)) = 3
  /\ \E n \in DOMAIN fs : fs[n].kind = "file"
  /\ \E n \in ServerDirs(fs) : Len(SplitFirst(n)[2]) > GROUP_SIZE
  /\ NameCount(fs, <<"b">>) = 2

\* N is a folder directly under servers/ with no delimiter in its name.
PlainFolder(f, N) ==
  /\ serversDir
  /\ N \in DOMAIN f
  /\ f[N].kind = "dir"
  /\ ~Contains(N, DELIMITER)

\* No enumeration of servers/ has an entry for folder N.
NotListed(f, N) ==
  \A entries \in Orders(Entries(f)) :
    LET l == ListServersOf(f, entries, FALSE, FALSE)
    IN  /\ Len(l) = Cardinality(ServerDirs(f) \ {N})
        /\ \A i \in DOMAIN l : FolderName(l[i][1], Some(l[i][2])) \in DOMAIN f \ {N}

\* C37: a folder directly under servers/ whose name N has no delimiter is
\* not listed by enumeration, yet create_server(N) fails with
\* ServerCreationError and changes nothing on the filesystem, the
\* placeholder built from N being bound to that folder with exists = true:
\* no create_server call with such a name gets past validation.
C37_PlainFolderBlocksCreate ==
  [][ /\ calls' = calls + 1 =>
           \A N \in NAMES \cup BAD_NAMES :
             PlainFolder(fs, N) =>
               /\ NotListed(fs, N)
               /\ NewServer(fs, N, None).exists
               /\ NewServer(fs, N, None).path = <<SERVERS, N>>
               /\ CreateCheck(NewServer(fs, N, None), fs) = "ServerCreationError"
      /\ ( /\ Whole("create")
           /\ last'.ret = "rejected"
           /\ last'.on # None
           /\ PlainFolder(fs, Val(last'.on).name) ) =>
           /\ last'.exc = "ServerCreationError"
           /\ Val(last'.on).exists
           /\ fs' = fs
           /\ serversDir' = serversDir
           /\ sessions' = sessions
      /\ \A c \in Callers :
           (Draws(c) /\ ~loc'[c].byRef) => ~PlainFolder(fs, loc'[c].arg)
      /\ (Whole("create") /\ last'.ret # "rejected") => ~PlainFolder(fs, last'.arg)
    ]_vars

\* create_server(N) was refused for the name of a folder without the
\* delimiter, strict_names being off and no server being listed; the
\* folder is as it was.
C37_Witness ==
  /\ Idle
  /\ ~strict_names
  /\ last.op = "create"
  /\ last.ret = "rejected"
  /\ last.exc = "ServerCreationError"
  /\ last.on # None
  /\ Val(last.on).exists
  /\ Val(last.on).server_id = None
  /\ PlainFolder(fs, Val(last.on).name)
  /\ fs[Val(last.on).name] = EmptyDir
  /\ ServerDirs(fs) = {}

=============================================================================
